---- MODULE Spec2Model ----
(***************************************************************************)
(* Flow correlation (group_s1ap_flows.py) and time-window filtering        *)
(* (filter_flows_by_time.py) of S1AP frames, modelled as state machines.   *)
(*                                                                         *)
(* Spec       : one invocation of group_flows over a record sequence.      *)
(* SpecFilter : the filter step of filter_flows_by_time.main.              *)
(***************************************************************************)
EXTENDS Integers, Sequences, FiniteSets, TLC

(***************************************************************************)
(* Bounds of the model and the small sets the inputs are drawn from.       *)
(***************************************************************************)
\* Longest record sequence handed to group_flows.
MaxLen == 3

\* Python's None, as returned by _to_int for absent or malformed text: the
\* least integer of TLC, which no operator of the model returns as a number
\* (to compute it from a text overflows).
None == -2147483647 - 1

\* Frame numbers (frame.number after _to_int).
Frames == {1, 2, 3}

\* ENB_UE_S1AP_ID (primary) and MME_UE_S1AP_ID (secondary) values.
EnbIds == {1, 2}
MmeIds == {1, 2}

OptEnb == {None} \cup EnbIds
OptMme == {None} \cup MmeIds

\* A CSV row after _to_int has been applied to its three columns.
Rows == [frame : Frames, enb : OptEnb, mme : OptMme]

\* The prebuilt per-frame identifier maps (frame_ids) that are tried: the
\* empty map and maps with an entry for frame 1.
SupVals == {<<1, None>>, <<None, 2>>, <<2, 1>>}
FrameIdMaps == {[f \in {} |-> <<None, None>>]} \cup {[f \in {1} |-> v] : v \in SupVals}

\* Longest flow list read by the filter subcommand.
MaxFlows == 2

\* Epoch times, as whole ticks (start_time, end_time, --start, --end).
Times == {0, 1, 2}
OptTimes == {None} \cup Times

\* Frame lists of the flows read by the filter subcommand.
FrameLists == {<<2>>, <<1, 2>>}

\* A flow object of the flows JSON; the filter never reads the identifiers,
\* for which one pair is tried.
FlowRecs == [enb_ue_s1ap_id : {1}, mme_ue_s1ap_id : {2},
             start_time : OptTimes, end_time : OptTimes, frames : FrameLists]

\* The frame -> time maps build_frame_time_map may return.
FrameTimeMaps == UNION {[D -> Times] : D \in SUBSET {1, 2}}

(***************************************************************************)
(* Helpers for Python lists and insertion-ordered dicts.                   *)
(***************************************************************************)
Range(s) == {s[i] : i \in DOMAIN s}

Min(S) == CHOOSE x \in S : \A y \in S : x <= y

Max(S) == CHOOSE x \in S : \A y \in S : x >= y

RECURSIVE SetToSortedSeq(_)
SetToSortedSeq(S) ==
    IF S = {} THEN <<>>
    ELSE LET m == Min(S) IN <<m>> \o SetToSortedSeq(S \ {m})

\* sorted(set(xs))
SortedSet(xs) == SetToSortedSeq(Range(xs))

\* flows is a dict keyed by (enb, mme); Python dicts keep insertion order, so
\* it is a sequence of [key, frames] entries with pairwise distinct keys.
Keys(fl) == {fl[i].key : i \in DOMAIN fl}

FlowIdx(fl, key) == CHOOSE i \in DOMAIN fl : fl[i].key = key

\* flows[key] read without creating the key: [] when absent.
FramesOf(fl, key) == IF key \in Keys(fl) THEN fl[FlowIdx(fl, key)].frames ELSE <<>>

\* flows[key].extend(items) on a defaultdict(list): creates the key if absent.
Extend(fl, key, items) ==
    IF key \in Keys(fl)
    THEN [fl EXCEPT ![FlowIdx(fl, key)].frames = @ \o items]
    ELSE Append(fl, [key |-> key, frames |-> items])

\* dict without key k
Without(d, k) == [x \in (DOMAIN d) \ {k} |-> d[x]]

EmptyDict == [x \in {} |-> None]

(***************************************************************************)
(* group_flows                                                             *)
(***************************************************************************)
\* Lines 190-192: the local state of one invocation.
InitState == [flows |-> <<>>, enb_pending |-> EmptyDict, enb_to_pair |-> EmptyDict]

\* Mutant of FillIds: the supplemental entry of a frame replaces the
\* identifiers of its record.
FillIdsOverride(frame, enb, mme, fids) ==
    IF (enb = None \/ mme = None) /\ frame \in DOMAIN fids
    THEN <<fids[frame][1], fids[frame][2]>>
    ELSE <<enb, mme>>

\* Lines 201-207: fill missing identifiers from the prebuilt per-frame map.
FillIds(frame, enb, mme, fids) ==
    IF (enb = None \/ mme = None) /\ frame \in DOMAIN fids
    THEN <<IF enb = None THEN fids[frame][1] ELSE enb,
           IF mme = None THEN fids[frame][2] ELSE mme>>
    ELSE <<enb, mme>>

\* Mutant of BothPresent: a bound primary seen with another secondary opens
\* the flow (enb, mme) instead of using the bound key.
BothPresentObserved(st, frame, enb, mme) ==
    LET key == <<enb, mme>> IN
    IF enb \notin DOMAIN st.enb_to_pair
    THEN LET drained == IF enb \in DOMAIN st.enb_pending
                        THEN Extend(st.flows, key, st.enb_pending[enb])
                        ELSE st.flows
         IN [flows       |-> Extend(drained, key, <<frame>>),
             enb_pending |-> Without(st.enb_pending, enb),
             enb_to_pair |-> (enb :> key) @@ st.enb_to_pair]
    ELSE [st EXCEPT !.flows = Extend(st.flows, key, <<frame>>)]

\* Mutant of BothPresent: the pending bucket is deleted without being
\* drained into the new flow.
BothPresentNoDrain(st, frame, enb, mme) ==
    LET key == <<enb, mme>> IN
    IF enb \notin DOMAIN st.enb_to_pair
    THEN [flows       |-> Extend(st.flows, key, <<frame>>),
          enb_pending |-> Without(st.enb_pending, enb),
          enb_to_pair |-> (enb :> key) @@ st.enb_to_pair]
    ELSE [st EXCEPT !.flows = Extend(st.flows, st.enb_to_pair[enb], <<frame>>)]

\* Mutant of BothPresent: for a bound primary the frame is appended to the
\* bound flow and, key not being reassigned, to flow (enb, mme) as well.
BothPresentAlsoObserved(st, frame, enb, mme) ==
    LET key == <<enb, mme>> IN
    IF enb \notin DOMAIN st.enb_to_pair
    THEN LET drained == IF enb \in DOMAIN st.enb_pending
                        THEN Extend(st.flows, key, st.enb_pending[enb])
                        ELSE st.flows
         IN [flows       |-> Extend(drained, key, <<frame>>),
             enb_pending |-> Without(st.enb_pending, enb),
             enb_to_pair |-> (enb :> key) @@ st.enb_to_pair]
    ELSE [st EXCEPT !.flows =
            Extend(Extend(st.flows, st.enb_to_pair[enb], <<frame>>), key, <<frame>>)]

\* Mutant of BothPresent: the pending bucket is drained into the new flow but
\* not deleted.
BothPresentKeepBucket(st, frame, enb, mme) ==
    LET key == <<enb, mme>> IN
    IF enb \notin DOMAIN st.enb_to_pair
    THEN LET drained == IF enb \in DOMAIN st.enb_pending
                        THEN Extend(st.flows, key, st.enb_pending[enb])
                        ELSE st.flows
         IN [flows       |-> Extend(drained, key, <<frame>>),
             enb_pending |-> st.enb_pending,
             enb_to_pair |-> (enb :> key) @@ st.enb_to_pair]
    ELSE [st EXCEPT !.flows = Extend(st.flows, st.enb_to_pair[enb], <<frame>>)]

\* Mutant of BothPresent: the flow is opened but the binding of its primary
\* is not recorded.
BothPresentUnbound(st, frame, enb, mme) ==
    LET key == <<enb, mme>> IN
    IF enb \notin DOMAIN st.enb_to_pair
    THEN LET drained == IF enb \in DOMAIN st.enb_pending
                        THEN Extend(st.flows, key, st.enb_pending[enb])
                        ELSE st.flows
         IN [flows       |-> Extend(drained, key, <<frame>>),
             enb_pending |-> Without(st.enb_pending, enb),
             enb_to_pair |-> st.enb_to_pair]
    ELSE [st EXCEPT !.flows = Extend(st.flows, st.enb_to_pair[enb], <<frame>>)]

\* Mutant of BothPresent: an unbound primary whose secondary already keys a
\* flow is bound to that flow (flows merged by secondary).
BothPresentMerge(st, frame, enb, mme) ==
    LET same == {k \in Keys(st.flows) : k[2] = mme}
        key == IF enb \notin DOMAIN st.enb_to_pair /\ same # {}
               THEN CHOOSE k \in same : TRUE
               ELSE <<enb, mme>>
    IN
    IF enb \notin DOMAIN st.enb_to_pair
    THEN LET drained == IF enb \in DOMAIN st.enb_pending
                        THEN Extend(st.flows, key, st.enb_pending[enb])
                        ELSE st.flows
         IN [flows       |-> Extend(drained, key, <<frame>>),
             enb_pending |-> Without(st.enb_pending, enb),
             enb_to_pair |-> (enb :> key) @@ st.enb_to_pair]
    ELSE [st EXCEPT !.flows = Extend(st.flows, st.enb_to_pair[enb], <<frame>>)]

\* Lines 209-219: both identifiers present.
BothPresent(st, frame, enb, mme) ==
    LET key == <<enb, mme>> IN
    IF enb \notin DOMAIN st.enb_to_pair
    THEN LET drained == IF enb \in DOMAIN st.enb_pending
                        THEN Extend(st.flows, key, st.enb_pending[enb])
                        ELSE st.flows
         IN [flows       |-> Extend(drained, key, <<frame>>),
             enb_pending |-> Without(st.enb_pending, enb),
             enb_to_pair |-> (enb :> key) @@ st.enb_to_pair]
    ELSE [st EXCEPT !.flows = Extend(st.flows, st.enb_to_pair[enb], <<frame>>)]

\* Mutant of EnbOnly: an unbound primary opens a degenerate flow (enb, None)
\* instead of a pending bucket.
EnbOnlyDegenerate(st, frame, enb) ==
    IF enb \in DOMAIN st.enb_to_pair
    THEN [st EXCEPT !.flows = Extend(st.flows, st.enb_to_pair[enb], <<frame>>)]
    ELSE [st EXCEPT !.flows = Extend(st.flows, <<enb, None>>, <<frame>>)]

\* Mutant of EnbOnly: a frame of an unbound primary is dropped, not kept
\* pending.
EnbOnlyForget(st, frame, enb) ==
    IF enb \in DOMAIN st.enb_to_pair
    THEN [st EXCEPT !.flows = Extend(st.flows, st.enb_to_pair[enb], <<frame>>)]
    ELSE st

\* Mutant of EnbOnly: a frame carrying a bound primary alone is dropped.
EnbOnlyBoundSkip(st, frame, enb) ==
    IF enb \in DOMAIN st.enb_to_pair
    THEN st
    ELSE [st EXCEPT !.enb_pending =
            IF enb \in DOMAIN st.enb_pending
            THEN [st.enb_pending EXCEPT ![enb] = Append(@, frame)]
            ELSE (enb :> <<frame>>) @@ st.enb_pending]

\* Mutant of EnbOnly: an unbound primary seen alone is bound at once, to a
\* flow keyed by the primary twice.
EnbOnlyGuess(st, frame, enb) ==
    IF enb \in DOMAIN st.enb_to_pair
    THEN [st EXCEPT !.flows = Extend(st.flows, st.enb_to_pair[enb], <<frame>>)]
    ELSE [flows       |-> Extend(st.flows, <<enb, enb>>, <<frame>>),
          enb_pending |-> st.enb_pending,
          enb_to_pair |-> (enb :> <<enb, enb>>) @@ st.enb_to_pair]

\* Lines 220-225: only the primary identifier present.
EnbOnly(st, frame, enb) ==
    IF enb \in DOMAIN st.enb_to_pair
    THEN [st EXCEPT !.flows = Extend(st.flows, st.enb_to_pair[enb], <<frame>>)]
    ELSE [st EXCEPT !.enb_pending =
            IF enb \in DOMAIN st.enb_pending
            THEN [st.enb_pending EXCEPT ![enb] = Append(@, frame)]
            ELSE (enb :> <<frame>>) @@ st.enb_pending]

\* Mutant of StepRow: a frame with only the secondary identifier joins the
\* flows whose key has that secondary.
StepRowMmeOnly(st, r, fids) ==
    IF r.frame = None THEN st
    ELSE LET ids == FillIds(r.frame, r.enb, r.mme, fids)
             enb == ids[1]
             mme == ids[2]
         IN IF enb # None /\ mme # None THEN BothPresent(st, r.frame, enb, mme)
            ELSE IF enb # None /\ mme = None THEN EnbOnly(st, r.frame, enb)
            ELSE IF mme # None
                 THEN [st EXCEPT !.flows =
                         [k \in DOMAIN st.flows |->
                            IF st.flows[k].key[2] = mme
                            THEN [st.flows[k] EXCEPT !.frames = Append(@, r.frame)]
                            ELSE st.flows[k]]]
                 ELSE st

\* Lines 194-228: the body of the loop for one row.
StepRow(st, r, fids) ==
    IF r.frame = None THEN st
    ELSE LET ids == FillIds(r.frame, r.enb, r.mme, fids)
             enb == ids[1]
             mme == ids[2]
         IN IF enb # None /\ mme # None THEN BothPresent(st, r.frame, enb, mme)
            ELSE IF enb # None /\ mme = None THEN EnbOnly(st, r.frame, enb)
            ELSE st

\* Mutant of SortFlows: the sorted list is computed but not stored.
SortFlowsSkip(fl) == fl

\* Lines 230-233: sort and deduplicate the frames of each flow.
SortFlows(fl) == [i \in DOMAIN fl |-> [key |-> fl[i].key, frames |-> SortedSet(fl[i].frames)]]

\* Lines 187-233 as a function of its arguments: the loop over all rows,
\* then the sort.
RECURSIVE RunRows(_, _, _)
RunRows(st, rs, fids) ==
    IF rs = <<>> THEN st
    ELSE RunRows(StepRow(st, Head(rs), fids), Tail(rs), fids)

GroupFlows(rs, fids) == SortFlows(RunRows(InitState, rs, fids).flows)

(***************************************************************************)
(* _to_int: the text of a CSV cell to an int or None. A text is the        *)
(* sequence of the code points of its characters. The integers are those   *)
(* of TLC: a text whose number is not within 32 bits has no value here.    *)
(***************************************************************************)
\* The printable characters of ASCII that can be written here: those from
\* the space (code point 32) to the underscore, and those from a (97) on.
Printable ==
    <<" ", "!", "\"", "#", "$", "%", "&", "'", "(", ")", "*", "+",
      ",", "-", ".", "/", "0", "1", "2", "3", "4", "5", "6", "7",
      "8", "9", ":", ";", "<", "=", ">", "?", "@", "A", "B", "C",
      "D", "E", "F", "G", "H", "I", "J", "K", "L", "M", "N", "O",
      "P", "Q", "R", "S", "T", "U", "V", "W", "X", "Y", "Z", "[",
      "\\", "]", "^", "_">>

Lower ==
    <<"a", "b", "c", "d", "e", "f", "g", "h", "i", "j", "k", "l",
      "m", "n", "o", "p", "q", "r", "s", "t", "u", "v", "w", "x",
      "y", "z", "{", "|", "}", "~">>

\* ord(c), for a character of ASCII that can be written here: a tab, a line
\* feed, a form feed, a carriage return or a printable character. A text
\* with any other character is given by its code points.
Ord(c) ==
    IF c = "\t" THEN 9
    ELSE IF c = "\n" THEN 10
    ELSE IF c = "\f" THEN 12
    ELSE IF c = "\r" THEN 13
    ELSE IF \E k \in DOMAIN Lower : Lower[k] = c
         THEN 96 + (CHOOSE k \in DOMAIN Lower : Lower[k] = c)
    ELSE 31 + (CHOOSE k \in DOMAIN Printable : Printable[k] = c)

\* The text written as a sequence of characters.
Text(s) == [k \in DOMAIN s |-> Ord(s[k])]

\* Characters the conversions name.
Zero == Ord("0")
Space == Ord(" ")
Question == Ord("?")
Minus == Ord("-")
Dot == Ord(".")
Underscore == Ord("_")
HexMarks == {Ord("x"), Ord("X")}

DecDigits == Text(<<"0", "1", "2", "3", "4", "5", "6", "7", "8", "9">>)

\* The digits of int(s, 16): a to f in either case.
HexDigits == DecDigits \o Text(<<"a", "b", "c", "d", "e", "f">>)
                       \o Text(<<"A", "B", "C", "D", "E", "F">>)

\* The characters str.strip() removes at both ends (str.isspace).
Whitespace ==
    {9, 10, 11, 12, 13, 28, 29, 30, 31, 32, 133, 160, 5760}
    \cup (8192..8202) \cup {8232, 8233, 8239, 8287, 12288}

\* The code point of the digit zero of every run of ten decimal digits
\* (Unicode 14, the character data of Python 3.11).
DigitZeros ==
    {48, 1632, 1776, 1984, 2406, 2534, 2662, 2790, 2918,
     3046, 3174, 3302, 3430, 3558, 3664, 3792, 3872, 4160,
     4240, 6112, 6160, 6470, 6608, 6784, 6800, 6992, 7088,
     7232, 7248, 42528, 43216, 43264, 43472, 43504, 43600, 44016,
     65296, 66720, 68912, 69734, 69872, 69942, 70096, 70384, 70736,
     70864, 71248, 71360, 71472, 71904, 72016, 72784, 73040, 73120,
     92768, 92864, 93008, 120782, 120792, 120802, 120812, 120822, 123200,
     123632, 125264, 130032}

IsDecimal(c) == \E z \in DigitZeros : c \in z..(z + 9)

\* The value of the decimal digit c.
Decimal(c) == c - (CHOOSE z \in DigitZeros : c \in z..(z + 9))

\* int() first turns every character outside ASCII into ASCII: a decimal
\* digit into its ASCII digit, whitespace into a space, any other into "?".
ToAscii(t) ==
    [k \in DOMAIN t |->
       IF t[k] < 128 THEN t[k]
       ELSE IF IsDecimal(t[k]) THEN Zero + Decimal(t[k])
       ELSE IF t[k] \in Whitespace THEN Space
       ELSE Question]

\* The base a digit list stands for.
Base(ds) == IF Len(ds) > Len(DecDigits) THEN 16 ELSE 10

\* The value of digit c in the digit list ds.
DigitVal(ds, c) ==
    LET k == CHOOSE j \in DOMAIN ds : ds[j] = c
    IN IF k > 16 THEN k - 7 ELSE k - 1

\* str.strip(): whitespace is removed at both ends only.
RECURSIVE Strip(_)
Strip(t) ==
    IF t = <<>> THEN t
    ELSE IF Head(t) \in Whitespace THEN Strip(Tail(t))
    ELSE IF t[Len(t)] \in Whitespace THEN Strip(SubSeq(t, 1, Len(t) - 1))
    ELSE t

\* s.lower().startswith("0x")
HasHexPrefix(t) ==
    Len(t) >= 2 /\ t[1] = Zero /\ t[2] \in HexMarks

\* int(): one sign may lead.
Signs == {Ord("+"), Ord("-")}

Unsigned(t) == IF t # <<>> /\ t[1] \in Signs THEN Tail(t) ELSE t

\* int(): what is left after the sign and, in base 16, after the prefix 0x
\* and one underscore that may follow it.
Body(ds, t) ==
    LET u == Unsigned(t)
    IN IF Base(ds) = 16 /\ HasHexPrefix(u)
       THEN LET r == SubSeq(u, 3, Len(u))
            IN IF r # <<>> /\ r[1] = Underscore THEN Tail(r) ELSE r
       ELSE u

\* int(s, base) accepts s: after sign and prefix, digits of the base, at
\* least one, with single underscores between digits.
AllDigits(ds, t) ==
    LET b == Body(ds, t)
        digits == Range(ds)
    IN /\ b # <<>>
       /\ b[1] \in digits
       /\ b[Len(b)] \in digits
       /\ \A k \in DOMAIN b : b[k] = Underscore \/ b[k] \in digits
       /\ \A k \in 1..(Len(b) - 1) : ~(b[k] = Underscore /\ b[k + 1] = Underscore)

\* The number a string of digits denotes in the base of ds.
RECURSIVE Magnitude(_, _)
Magnitude(ds, t) ==
    IF t = <<>> THEN 0
    ELSE Magnitude(ds, SubSeq(t, 1, Len(t) - 1)) * Base(ds) + DigitVal(ds, t[Len(t)])

IsDigit(c) == c # Underscore

\* The number int(s, base) returns for a text it accepts.
NumVal(ds, t) ==
    LET n == Magnitude(ds, SelectSeq(Body(ds, t), IsDigit))
    IN IF t[1] = Minus THEN 0 - n ELSE n

\* Mutant of ToInt: text that is no number counts as 0.
ToIntZero(text) ==
    LET t == Strip(text)
        a == ToAscii(t)
    IN IF t = <<>> THEN None
       ELSE IF AllDigits(DecDigits, a) THEN NumVal(DecDigits, a)
       ELSE IF HasHexPrefix(t) /\ AllDigits(HexDigits, a) THEN NumVal(HexDigits, a)
       ELSE 0

\* Lines 56-70: _to_int.
ToInt(text) ==
    LET t == Strip(text)
        a == ToAscii(t)
    IN IF t = <<>> THEN None
       ELSE IF AllDigits(DecDigits, a) THEN NumVal(DecDigits, a)
       ELSE IF HasHexPrefix(t) /\ AllDigits(HexDigits, a) THEN NumVal(HexDigits, a)
       ELSE None

\* Lines 195-199: the three cells of a row, converted.
ParseRow(raw) ==
    [frame |-> ToInt(raw.frame), enb |-> ToInt(raw.enb), mme |-> ToInt(raw.mme)]

(***************************************************************************)
(* filter_flows_by_time                                                    *)
(***************************************************************************)
\* Line 349: some flow lacks a start or an end time.
NeedFill(fl) ==
    \E k \in DOMAIN fl : fl[k].start_time = None \/ fl[k].end_time = None

\* Mutant of FillFlow: the times of a flow that has both are recomputed too.
FillFlowAlways(flow, ft) ==
    LET times == {ft[n] : n \in Range(flow.frames) \cap DOMAIN ft}
    IN IF times = {} THEN flow
       ELSE [flow EXCEPT !.start_time = Min(times), !.end_time = Max(times)]

\* Lines 153-163, for one flow.
FillFlow(flow, ft) ==
    IF flow.start_time # None /\ flow.end_time # None THEN flow
    ELSE LET times == {ft[n] : n \in Range(flow.frames) \cap DOMAIN ft}
         IN IF times = {} THEN flow
            ELSE [flow EXCEPT !.start_time = Min(times), !.end_time = Max(times)]

\* Lines 151-163: fill_missing_times.
FillMissingTimes(fl, ft) == [k \in DOMAIN fl |-> FillFlow(fl[k], ft)]

\* Mutant of Keep: 'contained' compares strictly.
KeepStrict(flow, lo, hi, md) ==
    IF flow.start_time = None \/ flow.end_time = None THEN FALSE
    ELSE IF md = "contained"
         THEN flow.start_time > lo /\ flow.end_time < hi
         ELSE ~(flow.end_time < lo \/ flow.start_time > hi)

\* Mutant of Keep: 'overlap' drops a flow that only touches a boundary.
KeepOpen(flow, lo, hi, md) ==
    IF flow.start_time = None \/ flow.end_time = None THEN FALSE
    ELSE IF md = "contained"
         THEN flow.start_time >= lo /\ flow.end_time <= hi
         ELSE ~(flow.end_time <= lo \/ flow.start_time >= hi)

\* Mutant of Keep: a missing time counts as an open end of the flow.
KeepMissing(flow, lo, hi, md) ==
    IF md = "contained"
    THEN /\ (flow.start_time = None \/ flow.start_time >= lo)
         /\ (flow.end_time = None \/ flow.end_time <= hi)
    ELSE ~(  (flow.end_time # None /\ flow.end_time < lo)
          \/ (flow.start_time # None /\ flow.start_time > hi))

\* Mutant of Keep: 'overlap' keeps only a flow that crosses a boundary of
\* the interval, not one that lies inside it.
KeepCrossing(flow, lo, hi, md) ==
    IF flow.start_time = None \/ flow.end_time = None THEN FALSE
    ELSE IF md = "contained"
         THEN flow.start_time >= lo /\ flow.end_time <= hi
         ELSE /\ ~(flow.end_time < lo \/ flow.start_time > hi)
              /\ ~(flow.start_time >= lo /\ flow.end_time <= hi)

\* Lines 366-369 of keep: both times are there.
HasBoth(flow) == flow.start_time # None /\ flow.end_time # None

\* Lines 365-375: keep.
Keep(flow, lo, hi, md) ==
    IF flow.start_time = None \/ flow.end_time = None THEN FALSE
    ELSE IF md = "contained"
         THEN flow.start_time >= lo /\ flow.end_time <= hi
         ELSE ~(flow.end_time < lo \/ flow.start_time > hi)

\* Line 377: [f for f in flows if keep(f)].
Filtered(fl, lo, hi, md) ==
    LET keep(f) == Keep(f, lo, hi, md) IN SelectSeq(fl, keep)

VARIABLES
    rows,         \* the records the loop of group_flows has read so far
    frame_ids,    \* the supplemental map given to group_flows
    i,            \* number of rows the current pass has consumed
    flows,        \* dict (enb, mme) -> list of frames, in insertion order
    enb_pending,  \* dict enb -> list of frames
    enb_to_pair,  \* dict enb -> (enb, mme)
    pc,           \* "loop" while iterating, "done" once group_flows returned
    other,        \* a second invocation of group_flows: its rows read so far,
                  \* its frame_ids, its three locals and its pc
    \* filter_flows_by_time.main
    env,          \* what main finds: "ok", or the input error it meets
    fflows,       \* flows: the list loaded from the flows JSON
    start,        \* args.start
    end,          \* args.end
    mode,         \* args.mode
    showframenum, \* args.showframenum
    showtime,     \* args.showtime
    tshark,       \* have_tshark(args.tshark)
    frame_time,   \* frame_time, once build_frame_time_map returned it
    filtered,     \* filtered
    fpc,          \* position in main, or its exit code
    fill_status,  \* what lines 348-358 did: which message they printed
    \* the enrichment loop of main and tshark_csv_for_frames
    idx,          \* idx of enumerate(filtered, start=1)
    pos,          \* number of frames `for n in frames` has consumed
    chunk,        \* chunk
    current_len,  \* current_len
    header_line,  \* header_line (None until a chunk returned output)
    lines_accum,  \* lines_accum: one entry per data row, the row's frame
    csv_header_line, \* csv_header_line
    enriched,     \* enriched
    requests,     \* the summary requests sent to tshark, with their outcome
    out_file,     \* args.out: NoFile, Written(json) or WriteFailed
    \* group_s1ap_flows.main
    benv,         \* what main finds: "ok", or the input error it meets
    idmap_status, \* whether build_frame_id_map returned ("ok") or raised
    result,       \* result
    bpc           \* position in main, or its exit code

corrVars == <<rows, frame_ids, i, flows, enb_pending, enb_to_pair, pc, other>>
filtVars == <<env, fflows, start, end, mode, showframenum, showtime, tshark, frame_time,
              filtered, fpc, fill_status>>
chunkVars == <<pos, chunk, current_len, header_line, lines_accum>>
enrVars == <<idx, chunkVars, csv_header_line, enriched, requests>>
buildVars == <<benv, idmap_status, result, bpc>>
vars == <<corrVars, filtVars, enrVars, out_file, buildVars>>

\* The filter subcommand is not running.
FilterIdle ==
    /\ env = "ok"
    /\ fflows = <<>>
    /\ start = 0
    /\ end = 0
    /\ mode = "contained"
    /\ showframenum = FALSE
    /\ showtime = FALSE
    /\ tshark = TRUE
    /\ frame_time = EmptyDict
    /\ filtered = <<>>
    /\ fpc = "idle"
    /\ fill_status = "none"

\* None where the code holds an Optional[str] for a header line: a text
\* with a line break, which no element of splitlines() and no header line
\* of main is.
NoLine == "\n"

\* args.out: no file yet, the JSON that was written, or the OSError.
NoFile == [state |-> "none", json |-> <<>>]
Written(obj) == [state |-> "written", json |-> <<obj>>]
WriteFailed == [state |-> "failed", json |-> <<>>]

\* The enrichment loop has not started, and nothing is written.
EnrichIdle ==
    /\ idx = 0
    /\ pos = 0
    /\ chunk = <<>>
    /\ current_len = 0
    /\ header_line = NoLine
    /\ lines_accum = <<>>
    /\ csv_header_line = NoLine
    /\ enriched = <<>>
    /\ requests = <<>>
    /\ out_file = NoFile

\* The build subcommand is not running.
BuildIdle ==
    /\ benv = "ok"
    /\ idmap_status = "none"
    /\ result = <<>>
    /\ bpc = "idle"

\* There is no second invocation.
NotCalled ==
    [rows |-> <<>>, frame_ids |-> EmptyDict, flows |-> <<>>,
     enb_pending |-> EmptyDict, enb_to_pair |-> EmptyDict, pc |-> "idle"]

\* group_flows is not running.
CorrIdle ==
    /\ other = NotCalled
    /\ rows = <<>>
    /\ frame_ids = EmptyDict
    /\ i = 0
    /\ flows = <<>>
    /\ enb_pending = EmptyDict
    /\ enb_to_pair = EmptyDict
    /\ pc = "idle"

State == [flows |-> flows, enb_pending |-> enb_pending, enb_to_pair |-> enb_to_pair]

\* group_flows is entered with an iterable of rows and a supplemental map.
\* The iterable yields its records one by one: rows holds those read so far.
Init ==
    /\ rows = <<>>
    /\ frame_ids \in FrameIdMaps
    /\ i = 0
    /\ flows = InitState.flows
    /\ enb_pending = InitState.enb_pending
    /\ enb_to_pair = InitState.enb_to_pair
    /\ pc = "loop"
    /\ other = NotCalled
    /\ FilterIdle
    /\ EnrichIdle
    /\ BuildIdle

\* One iteration of `for r in rows` (lines 194-228): the iterable yields r.
ProcessRowFrom(rs) ==
    /\ pc = "loop"
    /\ Len(rows) < MaxLen
    /\ \E r \in rs :
         /\ rows' = Append(rows, r)
         /\ LET s == StepRow(State, r, frame_ids)
            IN /\ flows' = s.flows
               /\ enb_pending' = s.enb_pending
               /\ enb_to_pair' = s.enb_to_pair
    /\ i' = i + 1
    /\ UNCHANGED <<frame_ids, pc, other, filtVars, enrVars, out_file, buildVars>>

ProcessRow == ProcessRowFrom(Rows)

\* The iterable is exhausted: sort each flow and return (lines 230-233).
Return ==
    /\ pc = "loop"
    /\ flows' = SortFlows(flows)
    /\ pc' = "done"
    /\ UNCHANGED <<rows, frame_ids, i, enb_pending, enb_to_pair, other, filtVars,
                   enrVars, out_file, buildVars>>

Next == ProcessRow \/ Return

Spec == Init /\ [][Next]_vars

(***************************************************************************)
(* SpecText: group_flows on rows as csv.DictReader yields them, cells of   *)
(* text; rows holds the text rows read so far.                             *)
(***************************************************************************)
\* Cell texts: empty, numbers (decimal, signed, padded, hexadecimal), and
\* text that is no number.
FrameTexts == {Text(<<"1">>), Text(<<" ", "2", "\r">>), Text(<<"x">>)}
EnbTexts == {<<>>, Text(<<"+", "1">>), Text(<<"1", "_">>)}
MmeTexts == {<<>>, Text(<<"0", "X", "A">>), Text(<<"0", "x">>)}
TextRows == [frame : FrameTexts, enb : EnbTexts, mme : MmeTexts]

\* One iteration of `for r in rows` (lines 194-228) on a row of text.
ProcessText ==
    /\ pc = "loop"
    /\ Len(rows) < MaxLen
    /\ \E raw \in TextRows :
         /\ rows' = Append(rows, raw)
         /\ LET s == StepRow(State, ParseRow(raw), frame_ids)
            IN /\ flows' = s.flows
               /\ enb_pending' = s.enb_pending
               /\ enb_to_pair' = s.enb_to_pair
    /\ i' = i + 1
    /\ UNCHANGED <<frame_ids, pc, other, filtVars, enrVars, out_file, buildVars>>

NextText == ProcessText \/ Return

\* group_flows is entered with no supplemental map, or with one that gives
\* frame 1 a secondary identifier.
InitText ==
    /\ Init
    /\ frame_ids \in {EmptyDict, [f \in {1} |-> <<None, 2>>]}

SpecText == InitText /\ [][NextText]_vars

(***************************************************************************)
(* SpecTwo: two invocations of group_flows whose steps interleave.         *)
(***************************************************************************)
\* The rows the two invocations read.
TwoRows ==
    {r \in Rows : \/ r.enb = Min(EnbIds) /\ r.frame = 1 /\ r.mme = None
                  \/ r.enb = Min(EnbIds) /\ r.frame = 2 /\ r.mme = Min(MmeIds)
                  \/ r.enb = Min(EnbIds) /\ r.frame = 3 /\ r.mme = Max(MmeIds)
                  \/ r.enb = Max(EnbIds) /\ r.frame = 3 /\ r.mme = Min(MmeIds)}

\* Mutant of Own: enb_pending is one dict shared by the invocations.
OwnButPending(c) ==
    [flows |-> c.flows, enb_pending |-> enb_pending, enb_to_pair |-> c.enb_to_pair]

\* Lines 190-192: the three dicts are locals, created by each invocation.
Own(c) ==
    [flows |-> c.flows, enb_pending |-> c.enb_pending, enb_to_pair |-> c.enb_to_pair]

InitTwo ==
    /\ rows = <<>>
    /\ frame_ids = EmptyDict
    /\ i = 0
    /\ flows = InitState.flows
    /\ enb_pending = InitState.enb_pending
    /\ enb_to_pair = InitState.enb_to_pair
    /\ pc = "loop"
    /\ other = [NotCalled EXCEPT !.pc = "loop"]
    /\ FilterIdle
    /\ EnrichIdle
    /\ BuildIdle

\* One iteration of the loop of the first invocation.
ProcessRowOne == ProcessRowFrom(TwoRows)

\* One iteration of the loop of the second invocation (lines 194-228).
ProcessRowOther ==
    /\ other.pc = "loop"
    /\ Len(other.rows) < MaxLen
    /\ \E r \in TwoRows :
         LET s == StepRow(Own(other), r, other.frame_ids)
         IN other' = [other EXCEPT !.rows = Append(other.rows, r),
                                   !.flows = s.flows,
                                   !.enb_pending = s.enb_pending,
                                   !.enb_to_pair = s.enb_to_pair]
    /\ UNCHANGED <<rows, frame_ids, i, flows, enb_pending, enb_to_pair, pc,
                   filtVars, enrVars, out_file, buildVars>>

\* The second invocation sorts and returns (lines 230-233).
ReturnOther ==
    /\ other.pc = "loop"
    /\ other' = [other EXCEPT !.flows = SortFlows(other.flows), !.pc = "done"]
    /\ UNCHANGED <<rows, frame_ids, i, flows, enb_pending, enb_to_pair, pc,
                   filtVars, enrVars, out_file, buildVars>>

NextTwo == ProcessRowOne \/ Return \/ ProcessRowOther \/ ReturnOther

SpecTwo == InitTwo /\ [][NextTwo]_vars

(***************************************************************************)
(* SpecFilter: filter_flows_by_time.main up to the filtered list.          *)
(***************************************************************************)
InputErrors == {"no_flows_file", "no_pcap", "bad_json", "not_array"}

InitFilter ==
    /\ CorrIdle
    /\ env \in {"ok"} \cup InputErrors
    /\ fflows \in IF env = "ok"
                  THEN UNION {[1..n -> FlowRecs] : n \in 0..MaxFlows}
                  ELSE {<<>>}
    /\ start \in Times
    /\ end \in Times
    /\ mode \in {"contained", "overlap"}
    /\ showframenum = FALSE
    /\ showtime = FALSE
    /\ tshark \in BOOLEAN
    /\ frame_time = EmptyDict
    /\ filtered = <<>>
    /\ fpc = "args"
    /\ fill_status = "none"
    /\ EnrichIdle
    /\ BuildIdle

\* Lines 328-346: the input checks, each returning 2.
Validate ==
    /\ fpc = "args"
    /\ fpc' = IF env # "ok" \/ start > end THEN "exit2" ELSE "loaded"
    /\ UNCHANGED <<env, fflows, start, end, mode, showframenum, showtime, tshark,
                   frame_time, filtered,
                   fill_status, corrVars, enrVars, out_file, buildVars>>

\* Lines 348-358: fill missing times when some flow needs it and tshark is
\* there; build_frame_time_map returns a map or raises, which is caught.
\* fill_status names the branch taken: "filled" (line 355), "failed" (the
\* message of line 357), "no_tshark" (the message of line 351), "not_needed".
BackfillFrom(maps) ==
    /\ fpc = "loaded"
    /\ fpc' = "filled"
    /\ IF ~NeedFill(fflows)
       THEN /\ fill_status' = "not_needed"
            /\ UNCHANGED <<frame_time, fflows>>
       ELSE IF ~tshark
       THEN /\ fill_status' = "no_tshark"
            /\ UNCHANGED <<frame_time, fflows>>
       ELSE \/ \E ft \in maps :
                 /\ frame_time' = ft
                 /\ fflows' = FillMissingTimes(fflows, ft)
                 /\ fill_status' = "filled"
            \/ /\ fill_status' = "failed"
               /\ UNCHANGED <<frame_time, fflows>>
    /\ UNCHANGED <<env, start, end, mode, showframenum, showtime, tshark, filtered, corrVars,
                   enrVars, out_file, buildVars>>

Backfill == BackfillFrom(FrameTimeMaps)

\* Lines 360-377: the filter.
Filter ==
    /\ fpc = "filled"
    /\ filtered' = Filtered(fflows, start, end, mode)
    /\ fpc' = "filtered"
    /\ UNCHANGED <<env, fflows, start, end, mode, showframenum, showtime, tshark,
                   frame_time,
                   fill_status, corrVars, enrVars, out_file, buildVars>>

NextFilter == Validate \/ Backfill \/ Filter

SpecFilter == InitFilter /\ [][NextFilter]_vars

\* SpecFill: the same runs for one interval, the whole span of the times,
\* in mode 'contained'.
InitFill ==
    /\ InitFilter
    /\ start = Min(Times)
    /\ end = Max(Times)
    /\ mode = "contained"

SpecFill == InitFill /\ [][NextFilter]_vars

(***************************************************************************)
(* filter_flows_by_time.main after the filter: the tshark check, the       *)
(* enrichment loop with tshark_csv_for_frames, and the write.              *)
(***************************************************************************)
\* Line 208: max_chars.
max_chars == 6000

\* len(str(int(n))) for a frame number n >= 0.
RECURSIVE Digits(_)
Digits(n) == IF n < 10 THEN 1 ELSE 1 + Digits(n \div 10)

\* chunk_lines[0] of a tshark answer, and the fallback of line 429.
TsharkHeader == "tshark_header"
FallbackHeader == "summary_fields"

\* What a summary request may come back with: a failure (CalledProcessError,
\* or no line of output at all: lines 269-275), or output whose first line
\* is one of the header lines hdrs, followed by the rows of the requested
\* frames that the capture holds: lost are the frames it does not hold.
NoAnswer == [ok |-> FALSE, header |-> NoLine, lost |-> {}]
Answers(hdrs, losts) ==
    {NoAnswer} \cup {[ok |-> TRUE, header |-> h, lost |-> l] : h \in hdrs, l \in losts}

\* chunk_lines[1:] (lines 273-279): the data rows tshark prints for
\* `frame.number in {chunk}`, one row per requested frame that the capture
\* holds, in capture order. A row is named by its frame number.
DataRows(ck, lost) ==
    LET held(n) == n \notin lost
        inOrder == IF \A j \in 1..(Len(ck) - 1) : ck[j] < ck[j + 1]
                   THEN ck ELSE SortedSet(ck)
    IN IF lost = {} THEN inOrder ELSE SelectSeq(inOrder, held)

\* The request for chunk ck of flow no, with its answer.
Request(ck, no, ans) ==
    [flow_no |-> no, frames |-> ck, ok |-> ans.ok, header |-> ans.header,
     rows |-> IF ans.ok THEN DataRows(ck, ans.lost) ELSE <<>>]

\* Mutant of run_chunk: a failed request is sent once more.
run_chunk_retry(loc, ck, no, ans) ==
    IF ck = <<>> THEN loc
    ELSE LET first == Append(loc.requests, Request(ck, no, ans))
             again == [ok |-> TRUE, header |-> TsharkHeader, lost |-> {}]
             sent == IF ans.ok THEN first
                     ELSE Append(first, Request(ck, no, again))
         IN [header_line |-> IF loc.header_line = NoLine
                             THEN (IF ans.ok THEN ans.header ELSE again.header)
                             ELSE loc.header_line,
             lines_accum |-> loc.lines_accum \o
                             DataRows(ck, IF ans.ok THEN ans.lost ELSE again.lost),
             requests |-> sent]

\* Mutant of run_chunk: every answered request stores its header line.
run_chunk_last_header(loc, ck, no, ans) ==
    IF ck = <<>> THEN loc
    ELSE LET sent == Append(loc.requests, Request(ck, no, ans))
         IN IF ~ans.ok THEN [loc EXCEPT !.requests = sent]
            ELSE [header_line |-> ans.header,
                  lines_accum |-> loc.lines_accum \o DataRows(ck, ans.lost),
                  requests |-> sent]

\* Lines 230-280: run_chunk, on loc = (header_line, lines_accum, requests),
\* for the flow numbered no; ans is what tshark answers the request with.
run_chunk(loc, ck, no, ans) ==
    IF ck = <<>> THEN loc
    ELSE LET sent == Append(loc.requests, Request(ck, no, ans))
         IN IF ~ans.ok THEN [loc EXCEPT !.requests = sent]
            ELSE [header_line |-> IF loc.header_line = NoLine
                                  THEN ans.header ELSE loc.header_line,
                  lines_accum |-> loc.lines_accum \o DataRows(ck, ans.lost),
                  requests |-> sent]

\* Lines 409-411: the keys of the flow that new_flow does not copy.
ExcludedKeys ==
    {"start_time", "end_time"} \cup (IF showframenum THEN {} ELSE {"frames"})

\* Lines 416-423: the keys --showtime adds.
TimeKeys == IF showtime THEN {"start_time", "end_time"} ELSE {}

\* A number below 100 in two digits.
TwoDigits(n) == <<DecDigits[(n \div 10) + 1], DecDigits[(n % 10) + 1]>>

\* Lines 417-421: iso_ms, for a whole number of seconds of the first day of
\* the epoch.
iso_ms(v) ==
    IF v = None THEN None
    ELSE Text(<<"1", "9", "7", "0", "-", "0", "1", "-", "0", "1", "T">>)
         \o TwoDigits(v \div 3600) \o Text(<<":">>)
         \o TwoDigits((v \div 60) % 60) \o Text(<<":">>)
         \o TwoDigits(v % 60) \o Text(<<".", "0", "0", "0", "Z">>)

\* flow.get(k)
Get(flow, k) == IF k \in DOMAIN flow THEN flow[k] ELSE None

\* Mutant of NewFlow: the display index counts from 0.
NewFlowFromZero(no, flow, csv_lines) ==
    [k \in {"flow_no", "pkt_summary_csv"} \cup (DOMAIN flow \ ExcludedKeys)
           \cup TimeKeys |->
       IF k = "pkt_summary_csv" THEN csv_lines
       ELSE IF k \in TimeKeys THEN iso_ms(Get(flow, k))
       ELSE IF k \in DOMAIN flow THEN flow[k]
       ELSE no - 1]

\* Lines 408-424: new_flow is flow_no, then every key of the flow that is
\* not excluded (a key flow_no of the flow replaces the index), then with
\* --showtime the two times as text, then pkt_summary_csv.
NewFlow(no, flow, csv_lines) ==
    [k \in {"flow_no", "pkt_summary_csv"} \cup (DOMAIN flow \ ExcludedKeys)
           \cup TimeKeys |->
       IF k = "pkt_summary_csv" THEN csv_lines
       ELSE IF k \in TimeKeys THEN iso_ms(Get(flow, k))
       ELSE IF k \in DOMAIN flow THEN flow[k]
       ELSE no]

\* Lines 405-406: the header line of a flow is kept if none is held yet and
\* it is neither None nor the empty line.
MergeHeader(cur, header) ==
    IF cur = NoLine /\ header # NoLine /\ header # "" THEN header ELSE cur

\* Lines 427-435: result_obj.
ResultObj(hdr, enr) ==
    [total_flows |-> Len(enr),
     csv_header |-> IF hdr = NoLine THEN FallbackHeader ELSE hdr,
     flows |-> enr]

Locals == [header_line |-> header_line, lines_accum |-> lines_accum,
           requests |-> requests]

\* Mutant of CheckTshark: the enrichment starts without the check.
CheckTsharkSkipped ==
    /\ fpc = "filtered"
    /\ fpc' = "enrich"
    /\ idx' = 1
    /\ UNCHANGED <<env, fflows, start, end, mode, showframenum, showtime, tshark,
                   frame_time, filtered,
                   fill_status, chunkVars, csv_header_line, enriched, requests,
                   out_file, corrVars, buildVars>>

\* Lines 389-395: enrichment needs tshark; else exit 2.
CheckTshark ==
    /\ fpc = "filtered"
    /\ IF tshark
       THEN /\ fpc' = "enrich"
            /\ idx' = 1
       ELSE /\ fpc' = "exit2"
            /\ UNCHANGED idx
    /\ UNCHANGED <<env, fflows, start, end, mode, showframenum, showtime, tshark,
                   frame_time, filtered,
                   fill_status, chunkVars, csv_header_line, enriched, requests,
                   out_file, corrVars, buildVars>>

\* Lines 396-404 and 199-208: the next flow; tshark_csv_for_frames returns
\* (None, []) at once for an empty frame list, else sets its locals up.
BeginFlow ==
    /\ fpc = "enrich"
    /\ idx <= Len(filtered)
    /\ IF filtered[idx].frames = <<>>
       THEN /\ enriched' = Append(enriched, NewFlow(idx, filtered[idx], <<>>))
            /\ idx' = idx + 1
            /\ UNCHANGED fpc
       ELSE /\ fpc' = "chunking"
            /\ UNCHANGED <<enriched, idx>>
    /\ UNCHANGED <<env, fflows, start, end, mode, showframenum, showtime, tshark,
                   frame_time, filtered,
                   fill_status, chunkVars, csv_header_line, requests,
                   out_file, corrVars, buildVars>>

\* Lines 282-290: one iteration of `for n in frames`; tshark answers with
\* one of answers.
AddFrameFrom(answers) ==
    /\ fpc = "chunking"
    /\ pos < Len(filtered[idx].frames)
    /\ LET n == filtered[idx].frames[pos + 1]
           s == Digits(n)
       IN IF current_len + s + 2 > max_chars /\ chunk # <<>>
          THEN \E ans \in answers :
                 LET loc == run_chunk(Locals, chunk, idx, ans)
                 IN /\ header_line' = loc.header_line
                    /\ lines_accum' = loc.lines_accum
                    /\ requests' = loc.requests
                    /\ chunk' = <<n>>
                    /\ current_len' = s + 1
          ELSE /\ chunk' = Append(chunk, n)
               /\ current_len' = current_len + s + 1
               /\ UNCHANGED <<header_line, lines_accum, requests>>
    /\ pos' = pos + 1
    /\ UNCHANGED <<env, fflows, start, end, mode, showframenum, showtime, tshark,
                   frame_time, filtered,
                   fpc, fill_status, idx, csv_header_line, enriched,
                   out_file, corrVars, buildVars>>

\* The capture of these runs holds every frame asked for.
Complete == Answers({TsharkHeader}, {{}})

AddFrame == AddFrameFrom(Complete)

\* Lines 291-294 and 405-425: the last chunk, the return, and the rest of
\* the loop body of main; the locals of tshark_csv_for_frames are gone.
EndFlowFrom(answers) ==
    /\ fpc = "chunking"
    /\ pos = Len(filtered[idx].frames)
    /\ \E ans \in answers :
         LET loc == run_chunk(Locals, chunk, idx, ans)
         IN /\ requests' = loc.requests
            /\ csv_header_line' = MergeHeader(csv_header_line, loc.header_line)
            /\ enriched' = Append(enriched,
                                  NewFlow(idx, filtered[idx], loc.lines_accum))
    /\ idx' = idx + 1
    /\ fpc' = "enrich"
    /\ pos' = 0
    /\ chunk' = <<>>
    /\ current_len' = 0
    /\ header_line' = NoLine
    /\ lines_accum' = <<>>
    /\ UNCHANGED <<env, fflows, start, end, mode, showframenum, showtime, tshark,
                   frame_time, filtered,
                   fill_status, out_file, corrVars, buildVars>>

EndFlow == EndFlowFrom(Complete)

\* Lines 427-446: result_obj and the write; OSError gives exit code 1.
WriteResult ==
    /\ fpc = "enrich"
    /\ idx > Len(filtered)
    /\ \/ /\ out_file' = Written(ResultObj(csv_header_line, enriched))
          /\ fpc' = "exit0"
       \/ /\ out_file' = WriteFailed
          /\ fpc' = "exit1"
    /\ UNCHANGED <<env, fflows, start, end, mode, showframenum, showtime, tshark,
                   frame_time, filtered,
                   fill_status, enrVars, corrVars, buildVars>>

Enrich == CheckTshark \/ BeginFlow \/ AddFrame \/ EndFlow \/ WriteResult

(***************************************************************************)
(* group_s1ap_flows.main: the build subcommand.                            *)
(***************************************************************************)
\* Lines 269-281: frame_time; rows without a frame number or without a time
\* are skipped, and a later row replaces an earlier row of the same frame.
FrameTime(rs) ==
    LET set == {k \in DOMAIN rs : rs[k].frame # None /\ rs[k].time # None}
        timed(f) == {k \in set : rs[k].frame = f}
    IN [f \in {rs[k].frame : k \in set} |-> rs[Max(timed(f))].time]

\* Mutant of FlowTimes: the times of the first and of the last timed frame.
FlowTimesFirstLast(frames, ft) ==
    LET timed == SelectSeq(frames, LAMBDA n : n \in DOMAIN ft)
    IN IF timed = <<>> THEN <<None, None>>
       ELSE <<ft[timed[1]], ft[timed[Len(timed)]]>>

\* Lines 287-289: start and end of a flow with these frames.
FlowTimes(frames, ft) ==
    LET times == {ft[n] : n \in Range(frames) \cap DOMAIN ft}
    IN IF times = {} THEN <<None, None>> ELSE <<Min(times), Max(times)>>

\* Lines 285-297: one JSON object per flow, in the order of flows.items().
BuildResult(fl, ft) ==
    [k \in DOMAIN fl |->
       [enb_ue_s1ap_id |-> fl[k].key[1],
        mme_ue_s1ap_id |-> fl[k].key[2],
        start_time |-> FlowTimes(fl[k].frames, ft)[1],
        end_time |-> FlowTimes(fl[k].frames, ft)[2],
        frames |-> fl[k].frames]]

\* Line 300: the sort key; float("inf") is Inf, the greatest integer of TLC.
Inf == 2147483647
SortKey(x) ==
    <<IF x.start_time # None THEN x.start_time ELSE Inf,
      IF x.frames # <<>> THEN x.frames[1] ELSE Inf>>

\* Tuple comparison of Python: a <= b.
KeyLeq(a, b) == a[1] < b[1] \/ (a[1] = b[1] /\ a[2] <= b[2])

\* list.sort is stable: x goes after the entries whose key is <= its key.
InsertSorted(srt, x) ==
    LET before == {k \in DOMAIN srt : KeyLeq(SortKey(srt[k]), SortKey(x))}
        n == Cardinality(before)
    IN SubSeq(srt, 1, n) \o <<x>> \o SubSeq(srt, n + 1, Len(srt))

RECURSIVE SortedFrom(_, _)
SortedFrom(res, k) ==
    IF k = 0 THEN <<>> ELSE InsertSorted(SortedFrom(res, k - 1), res[k])

\* Mutant of SortResult: the flows stay in the order of flows.items().
SortResultSkipped(res) == res

\* Line 300: result.sort(key=...).
SortResult(res) == SortedFrom(res, Len(res))

\* Longest CSV read by the build subcommand.
MaxCsv == 2

\* A CSV row as main reads it: the three columns of group_flows (the frame
\* number None when its cell is empty or not a number) and frame.time_epoch
\* (None when empty or not a number).
CsvRows == [frame : {None} \cup (Frames \ {Max(Frames)}), enb : EnbIds, mme : {None} \cup {Min(MmeIds)},
            time : {None} \cup (Times \ {Max(Times)})]

BuildErrors == {"no_csv", "no_pcap", "no_tshark"}

InitBuild ==
    /\ benv \in {"ok"} \cup BuildErrors
    /\ rows \in IF benv = "ok"
                THEN UNION {[1..n -> CsvRows] : n \in 0..MaxCsv}
                ELSE {<<>>}
    /\ frame_ids = EmptyDict
    /\ i = 0
    /\ flows = <<>>
    /\ enb_pending = EmptyDict
    /\ enb_to_pair = EmptyDict
    /\ pc = "idle"
    /\ other = NotCalled
    /\ idmap_status = "none"
    /\ result = <<>>
    /\ bpc = "args"
    /\ FilterIdle
    /\ EnrichIdle

\* Lines 252-260: the input checks, each returning 2.
BuildCheck ==
    /\ bpc = "args"
    /\ bpc' = IF benv # "ok" THEN "exit2" ELSE "checked"
    /\ UNCHANGED <<benv, idmap_status, result, corrVars, filtVars, enrVars,
                   out_file>>

\* Mutant of BuildIdMap: a failure of tshark is swallowed and the run goes
\* on with an empty map.
BuildIdMapSwallow ==
    /\ bpc = "checked"
    /\ \/ \E m \in FrameIdMaps :
            /\ frame_ids' = m
            /\ idmap_status' = "ok"
       \/ /\ idmap_status' = "failed"
          /\ UNCHANGED frame_ids
    /\ bpc' = "mapped"
    /\ UNCHANGED <<benv, result, rows, i, flows, enb_pending, enb_to_pair, pc,
                   other, filtVars, enrVars, out_file>>

\* Line 263: build_frame_id_map returns a map, or raises RuntimeError, which
\* nothing catches: the interpreter prints the traceback and exits with 1.
BuildIdMap ==
    /\ bpc = "checked"
    /\ \/ \E m \in FrameIdMaps :
            /\ frame_ids' = m
            /\ idmap_status' = "ok"
            /\ bpc' = "mapped"
       \/ /\ idmap_status' = "failed"
          /\ bpc' = "exit1"
          /\ UNCHANGED frame_ids
    /\ UNCHANGED <<benv, result, rows, i, flows, enb_pending, enb_to_pair, pc,
                   other, filtVars, enrVars, out_file>>

\* Lines 266-300: frame_time, group_flows, the JSON objects, the sort.
BuildFlows ==
    /\ bpc = "mapped"
    /\ flows' = GroupFlows(rows, frame_ids)
    /\ result' = SortResult(BuildResult(flows', FrameTime(rows)))
    /\ bpc' = "sorted"
    /\ UNCHANGED <<benv, idmap_status, rows, frame_ids, i, enb_pending,
                   enb_to_pair, pc, other, filtVars, enrVars, out_file>>

\* Lines 302-317: the write; OSError is caught and reported, the JSON is
\* printed to stdout, and main returns 0 either way.
BuildWrite ==
    /\ bpc = "sorted"
    /\ \/ /\ out_file' = Written(result)
          /\ bpc' = "exit0"
       \/ /\ out_file' = WriteFailed
          /\ bpc' = "exit0"
    /\ UNCHANGED <<benv, idmap_status, result, corrVars, filtVars, enrVars>>

Build == BuildCheck \/ BuildIdMap \/ BuildFlows \/ BuildWrite

(***************************************************************************)
(* SpecCli: one run of either subcommand, from its arguments to its exit.  *)
(***************************************************************************)
\* Flow objects as the build subcommand writes them: both times, ordered, or
\* neither.
PersistedFlowRecs ==
    {f \in FlowRecs : \/ f.start_time = None /\ f.end_time = None
                      \/ HasBoth(f) /\ f.start_time <= f.end_time}

\* The maps tshark answers with for the capture of these runs.
CliTimeMaps == {[f \in {1, 2} |-> f - 1], [f \in {2} |-> 0]}

InitRun ==
    /\ CorrIdle
    /\ env \in {"ok"} \cup InputErrors
    /\ fflows \in IF env = "ok"
                  THEN UNION {[1..n -> PersistedFlowRecs] : n \in 0..MaxFlows}
                  ELSE {<<>>}
    /\ start \in Times
    /\ end \in Times
    /\ mode \in {"contained", "overlap"}
    /\ showframenum \in BOOLEAN
    /\ showtime \in BOOLEAN
    /\ tshark \in BOOLEAN
    /\ frame_time = EmptyDict
    /\ filtered = <<>>
    /\ fpc = "args"
    /\ fill_status = "none"
    /\ EnrichIdle
    /\ BuildIdle

BackfillCli == BackfillFrom(CliTimeMaps)

InitCli == InitBuild \/ InitRun

NextCli == Build \/ Validate \/ BackfillCli \/ Filter \/ Enrich

SpecCli == InitCli /\ [][NextCli]_vars

(***************************************************************************)
(* The persisted flow set as text: json.dump of the build subcommand       *)
(* (group_s1ap_flows.py lines 305-306) and json.load of the filter         *)
(* subcommand (filter_flows_by_time.py lines 338-346). The layout of the   *)
(* text (brackets, commas, indentation) is kept as structure; the scalars  *)
(* are the texts json writes. Times are whole seconds held as floats.      *)
(***************************************************************************)
JsonNull == Text(<<"n", "u", "l", "l">>)

\* str(n) of an integer.
RECURSIVE IntText(_)
IntText(n) ==
    IF n < 0 THEN <<Minus>> \o IntText(0 - n)
    ELSE IF n < 10 THEN <<DecDigits[n + 1]>>
    ELSE IntText(n \div 10) \o <<DecDigits[(n % 10) + 1]>>

\* json.dump of an Optional[int] and of an Optional[float].
JsonInt(v) == IF v = None THEN JsonNull ELSE IntText(v)
JsonFloat(v) ==
    IF v = None THEN JsonNull ELSE IntText(v) \o Text(<<".", "0">>)

\* json.dump(result, f, indent=2).
JsonDump(res) ==
    [k \in DOMAIN res |->
       [enb_ue_s1ap_id |-> JsonInt(res[k].enb_ue_s1ap_id),
        mme_ue_s1ap_id |-> JsonInt(res[k].mme_ue_s1ap_id),
        start_time |-> JsonFloat(res[k].start_time),
        end_time |-> JsonFloat(res[k].end_time),
        frames |-> [j \in DOMAIN res[k].frames |-> JsonInt(res[k].frames[j])]]]

\* json.load of a scalar: null, an integer, or a number with a fraction part
\* of zeros.
JsonScalar(t) ==
    IF t = JsonNull THEN None
    ELSE IF \E d \in DOMAIN t : t[d] = Dot
         THEN NumVal(DecDigits,
                     SubSeq(t, 1, (CHOOSE d \in DOMAIN t : t[d] = Dot) - 1))
    ELSE NumVal(DecDigits, t)

\* Mutant of JsonLoad: the two identifiers are read into each other's key.
JsonLoadSwapped(text) ==
    [k \in DOMAIN text |->
       [enb_ue_s1ap_id |-> JsonScalar(text[k].mme_ue_s1ap_id),
        mme_ue_s1ap_id |-> JsonScalar(text[k].enb_ue_s1ap_id),
        start_time |-> JsonScalar(text[k].start_time),
        end_time |-> JsonScalar(text[k].end_time),
        frames |-> [j \in DOMAIN text[k].frames |-> JsonScalar(text[k].frames[j])]]]

\* json.load(f) of a file json.dump wrote.
JsonLoad(text) ==
    [k \in DOMAIN text |->
       [enb_ue_s1ap_id |-> JsonScalar(text[k].enb_ue_s1ap_id),
        mme_ue_s1ap_id |-> JsonScalar(text[k].mme_ue_s1ap_id),
        start_time |-> JsonScalar(text[k].start_time),
        end_time |-> JsonScalar(text[k].end_time),
        frames |-> [j \in DOMAIN text[k].frames |-> JsonScalar(text[k].frames[j])]]]

(***************************************************************************)
(* SpecRound: a run of the build subcommand, then a run of the filter      *)
(* subcommand on the flows file the build wrote.                           *)
(***************************************************************************)
\* filter_flows_by_time.main is started on the file the build wrote, and is
\* ready to check its arguments; the file holds the text of the JSON. The
\* interval starts at the earliest time and ends there or at the latest.
ReadPersisted ==
    /\ bpc = "exit0"
    /\ fpc = "idle"
    /\ out_file.state = "written"
    /\ env' = "ok"
    /\ fflows' = JsonLoad(JsonDump(out_file.json[1]))
    /\ start' = Min(Times)
    /\ end' \in {Min(Times), Max(Times)}
    /\ mode' = "contained"
    /\ showframenum' \in BOOLEAN
    /\ showtime' = FALSE
    /\ tshark' \in BOOLEAN
    /\ fpc' = "args"
    /\ UNCHANGED <<frame_time, filtered, fill_status, corrVars, enrVars,
                   out_file, buildVars>>

\* The build subcommand is started on a CSV of the capture's first two
\* frames.
InitRound ==
    /\ InitBuild
    /\ \A k \in DOMAIN rows : rows[k].frame # None

NextRound == Build \/ ReadPersisted \/ Validate \/ BackfillCli \/ Filter \/ Enrich

SpecRound == InitRound /\ [][NextRound]_vars

(***************************************************************************)
(* SpecEnrich: the enrichment of flows whose frame lists need one or       *)
(* several summary requests, from the filtered list to the exit.           *)
(***************************************************************************)
\* The most summary requests one flow of these runs needs.
MaxChunks == 2

\* Frame numbers of ten digits, as late in a long capture.
FrameBase == 10 ^ 9

\* The number of such frames one request holds (line 285).
PerChunk == max_chars \div (Digits(FrameBase) + 1)

\* Consecutive frames, n of them.
FrameRun(n) == [k \in 1..n |-> FrameBase + k]

\* Frame lists that need 0, 1, ..., MaxChunks requests.
LongFrameLists == {<<>>} \cup {FrameRun(c * PerChunk + 1) : c \in 0..(MaxChunks - 1)}

\* One or two flows, all inside the interval.
LongFlows == [start_time : {Min(Times)}, end_time : {Min(Times)},
              frames : LongFrameLists]

\* main at line 377, having loaded and kept these flows.
InitEnrich ==
    /\ CorrIdle
    /\ BuildIdle
    /\ EnrichIdle
    /\ env = "ok"
    /\ fflows \in UNION {[1..n -> LongFlows] : n \in {1, 2}}
    /\ start = Min(Times)
    /\ end = Min(Times)
    /\ mode = "contained"
    /\ showframenum = FALSE
    /\ showtime = FALSE
    /\ tshark \in BOOLEAN
    /\ frame_time = EmptyDict
    /\ fill_status = "not_needed"
    /\ filtered = Filtered(fflows, start, end, mode)
    /\ fpc = "filtered"

\* Every frame of these runs.
LongFrames == UNION {Range(l) : l \in LongFrameLists}

\* What tshark may answer with in these runs: a failure; the header line
\* and every row; another header line and the rows but for the second
\* frame, which the capture does not hold; or an empty first line and no
\* row.
Partial ==
    Complete \cup Answers({"tshark_header_2"}, {{FrameBase + 2}})
             \cup Answers({""}, {LongFrames})

AddFrameAny == AddFrameFrom(Partial)
EndFlowAny == EndFlowFrom(Partial)

NextEnrich == CheckTshark \/ BeginFlow \/ AddFrameAny \/ EndFlowAny \/ WriteResult

SpecEnrich == InitEnrich /\ [][NextEnrich]_vars

(***************************************************************************)
(* Vocabulary of the properties of group_flows.                            *)
(***************************************************************************)
\* Identifiers of row r after supplemental filling.
Eff(r) == FillIds(r.frame, r.enb, r.mme, frame_ids)
EffEnb(r) == Eff(r)[1]
EffMme(r) == Eff(r)[2]

\* This step is one iteration of the loop; NewRow is the row it processed.
Stepped == pc = "loop" /\ pc' = "loop" /\ Len(rows') = Len(rows) + 1
NewRow == rows'[Len(rows')]

UniqueFrames(rs) == \A j, k \in DOMAIN rs : j # k => rs[j].frame # rs[k].frame

Ascending(s) == \A j, k \in DOMAIN s : j < k => s[j] < s[k]

FlowFrames(fl) == UNION {Range(fl[k].frames) : k \in DOMAIN fl}

\* pc = "done" implies flows is what the function computes from its inputs.
ReturnsGroupFlows == pc = "done" => flows = GroupFlows(rows, frame_ids)

TypeOK ==
    /\ pc \in {"idle", "loop", "done"}
    /\ i = Len(rows)
    /\ fpc \in {"idle", "args", "loaded", "filled", "filtered", "enrich",
               "chunking", "exit0", "exit1", "exit2"}
    /\ bpc \in {"idle", "args", "checked", "mapped", "sorted",
               "exit0", "exit1", "exit2"}
    /\ out_file.state \in {"none", "written", "failed"}

\* All orderings of a record sequence.
Orderings(rs) == {[k \in DOMAIN rs |-> rs[q[k]]] : q \in Permutations(DOMAIN rs)}

\* The grouping of a result: per flow, its primary identifier and its frames.
Grouping(fl) == {<<fl[k].key[1], fl[k].frames>> : k \in DOMAIN fl}

\* Primary p occurs in the rows read, and never together with a secondary.
OnlyAlone(p) ==
    /\ \E j \in DOMAIN rows : EffEnb(rows[j]) = p
    /\ \A j \in DOMAIN rows : EffEnb(rows[j]) = p => EffMme(rows[j]) = None

\* Row k is the first row that carries its primary with a secondary.
FirstPairing(k) ==
    /\ EffEnb(rows[k]) # None
    /\ EffMme(rows[k]) # None
    /\ \A j \in 1..(k - 1) : EffEnb(rows[j]) = EffEnb(rows[k]) => EffMme(rows[j]) = None

(***************************************************************************)
(* Properties of group_flows (specification Spec).                         *)
(***************************************************************************)
\* C1. First-seen-wins: a binding of a primary identifier never changes,
\* every flow key is the binding of its primary, and a row carrying a bound
\* primary (whatever its secondary) appends its frame to the bound flow and
\* creates no flow.
FirstSeenWins ==
    [][ /\ \A p \in DOMAIN enb_to_pair :
             p \in DOMAIN enb_to_pair' /\ enb_to_pair'[p] = enb_to_pair[p]
        /\ \A k \in Keys(flows') :
             k[1] \in DOMAIN enb_to_pair' /\ enb_to_pair'[k[1]] = k
        /\ (Stepped /\ EffEnb(NewRow) \in DOMAIN enb_to_pair) =>
             LET key == enb_to_pair[EffEnb(NewRow)] IN
             /\ Keys(flows') = Keys(flows)
             /\ FramesOf(flows', key) = Append(FramesOf(flows, key), NewRow.frame)
             /\ \A k \in Keys(flows) \ {key} : FramesOf(flows', k) = FramesOf(flows, k)
      ]_vars

\* C1 witness: (p, s), then p alone, then (p, s2) with s2 # s; the one flow
\* returned is (p, s) with the three frames.
FirstSeenWitness ==
    /\ pc = "done"
    /\ Len(rows) = 3
    /\ UniqueFrames(rows)
    /\ \E p \in EnbIds : \E s, s2 \in MmeIds :
         /\ s # s2
         /\ Eff(rows[1]) = <<p, s>>
         /\ Eff(rows[2]) = <<p, None>>
         /\ Eff(rows[3]) = <<p, s2>>
         /\ Keys(flows) = {<<p, s>>}
         /\ Range(FramesOf(flows, <<p, s>>)) = {rows[j].frame : j \in 1..3}

\* C2. Pending-then-resolved: the row that first pairs a primary having a
\* pending bucket moves the bucket's frames, followed by its own frame, into
\* the new flow and deletes the bucket; the returned flow holds every frame
\* of that primary up to the pairing row, in ascending order.
PendingThenResolved ==
    [][ /\ (/\ Stepped
            /\ EffEnb(NewRow) # None
            /\ EffMme(NewRow) # None
            /\ EffEnb(NewRow) \notin DOMAIN enb_to_pair
            /\ EffEnb(NewRow) \in DOMAIN enb_pending) =>
             /\ EffEnb(NewRow) \notin DOMAIN enb_pending'
             /\ Eff(NewRow) \in Keys(flows')
             /\ Eff(NewRow) \notin Keys(flows)
             /\ FramesOf(flows', Eff(NewRow)) =
                    Append(enb_pending[EffEnb(NewRow)], NewRow.frame)
        /\ pc' = "done" =>
             \A k \in DOMAIN rows' : FirstPairing(k)' =>
                /\ Eff(rows'[k]) \in Keys(flows')
                /\ {rows'[j].frame : j \in {j \in 1..k : EffEnb(rows'[j]) = EffEnb(rows'[k])}}
                       \subseteq Range(FramesOf(flows', Eff(rows'[k])))
                /\ Ascending(FramesOf(flows', Eff(rows'[k])))
      ]_vars

\* C2 witness: p alone in a frame numbered above the frame that then pairs
\* p; the flow returned lists both, ascending.
PendingResolvedWitness ==
    /\ pc = "done"
    /\ Len(rows) = 2
    /\ rows[1].frame > rows[2].frame
    /\ \E p \in EnbIds : \E s \in MmeIds :
         /\ Eff(rows[1]) = <<p, None>>
         /\ Eff(rows[2]) = <<p, s>>
         /\ p \notin DOMAIN enb_pending
         /\ FramesOf(flows, <<p, s>>) = <<rows[2].frame, rows[1].frame>>

\* C3 as claimed: a primary seen only alone has no returned flow, and none
\* of its frame numbers is in any returned flow.
UndisambiguatedDropClaimed ==
    pc = "done" =>
      \A p \in EnbIds : OnlyAlone(p) =>
         /\ \A k \in Keys(flows) : k[1] # p
         /\ \A j \in DOMAIN rows :
              EffEnb(rows[j]) = p => rows[j].frame \notin FlowFrames(flows)

\* C3 amended. A primary seen only alone has no returned flow, and a frame
\* number of its rows is in a returned flow only if a row of a paired
\* primary carries the same frame number.
UndisambiguatedDrop ==
    pc = "done" =>
      \A p \in EnbIds : OnlyAlone(p) =>
         /\ \A k \in Keys(flows) : k[1] # p
         /\ \A j \in DOMAIN rows :
              (EffEnb(rows[j]) = p /\ rows[j].frame \in FlowFrames(flows)) =>
                 \E h \in DOMAIN rows :
                    /\ rows[h].frame = rows[j].frame
                    /\ EffEnb(rows[h]) # None
                    /\ ~OnlyAlone(EffEnb(rows[h]))

\* C3 witness: one primary is only ever seen alone, in frames no other row
\* carries, another primary is paired; only the latter has a flow.
UndisambiguatedWitness ==
    /\ pc = "done"
    /\ UniqueFrames(rows)
    /\ \E p, q \in EnbIds :
         /\ OnlyAlone(p)
         /\ p \in DOMAIN enb_pending
         /\ Len(enb_pending[p]) = 2
         /\ Range(enb_pending[p]) \cap FlowFrames(flows) = {}
         /\ {k[1] : k \in Keys(flows)} = {q}

\* C4. Partition: when the frame numbers of the rows are unique, the flows
\* returned are pairwise disjoint and hold only frame numbers of the rows.
PartitionInvariant ==
    (pc = "done" /\ UniqueFrames(rows)) =>
      /\ \A a, b \in DOMAIN flows :
           a # b => Range(flows[a].frames) \cap Range(flows[b].frames) = {}
      /\ FlowFrames(flows) \subseteq {rows[j].frame : j \in DOMAIN rows}

\* C4 witness: unique frame numbers, two flows returned, one row discarded.
PartitionWitness ==
    /\ pc = "done"
    /\ UniqueFrames(rows)
    /\ Len(rows) = 3
    /\ Len(flows) = 2
    /\ Cardinality(FlowFrames(flows)) = 2

\* C5. A row whose primary identifier is absent after filling (secondary
\* only, or no identifier) changes neither the flows, nor the pending
\* buckets, nor the bindings.
DiscardUnchanged ==
    [][ (Stepped /\ EffEnb(NewRow) = None) =>
           UNCHANGED <<flows, enb_pending, enb_to_pair>> ]_vars

\* C5 witness: the last row read carries only a secondary identifier, equal
\* to the secondary of an existing flow, and its frame is in no flow.
DiscardWitness ==
    /\ pc = "loop"
    /\ Len(rows) >= 2
    /\ LET r == rows[Len(rows)] IN
         /\ EffEnb(r) = None
         /\ EffMme(r) # None
         /\ \E k \in Keys(flows) : k[2] = EffMme(r)
         /\ r.frame \notin FlowFrames(flows)

\* C6. For rows with unique frame numbers, every ordering of the rows
\* yields the same grouping (primary identifier and frames of each flow).
OrderIndependent ==
    (pc = "done" /\ UniqueFrames(rows)) =>
      \A o \in Orderings(rows) :
         Grouping(GroupFlows(o, frame_ids)) = Grouping(flows)

\* C6 witness: an ordering exists that returns other flow keys (another
\* secondary was seen first) for pending and bound frames alike.
OrderWitness ==
    /\ pc = "done"
    /\ UniqueFrames(rows)
    /\ Len(rows) = 3
    /\ \E j \in DOMAIN rows : EffEnb(rows[j]) # None /\ EffMme(rows[j]) = None
    /\ \E o \in Orderings(rows) : Keys(GroupFlows(o, frame_ids)) # Keys(flows)

\* C8. Every flow returned lists its frames strictly ascending (so without
\* duplicates).
AscendingFrames ==
    pc = "done" => \A k \in DOMAIN flows : Ascending(flows[k].frames)

\* C8 witness: the rows of one flow repeat a frame number and arrive out of
\* numeric order.
AscendingWitness ==
    /\ pc = "done"
    /\ Len(rows) = 3
    /\ rows[1].frame > rows[2].frame
    /\ rows[3].frame = rows[1].frame
    /\ \E p \in EnbIds : \A j \in 1..3 : EffEnb(rows[j]) = p
    /\ Len(flows) = 1
    /\ flows[1].frames = <<rows[2].frame, rows[1].frame>>

(***************************************************************************)
(* Properties of the time filter (specification SpecFilter).               *)
(***************************************************************************)
HasTimes(flow) == flow.start_time # None /\ flow.end_time # None

\* The flow at position k of the loaded list is in the filtered list.
Kept(k) == fflows[k] \in Range(filtered)

\* C9. Mode 'contained': a flow with both times is kept exactly when
\* start_time >= start and end_time <= end, boundaries included.
ContainedKeeps ==
    (fpc = "filtered" /\ mode = "contained") =>
      \A k \in DOMAIN fflows : HasTimes(fflows[k]) =>
         (Kept(k) <=> (fflows[k].start_time >= start /\ fflows[k].end_time <= end))

\* C9 witness: of two flows with times, the one spanning exactly
\* [start, end] is kept, the one reaching beyond end is dropped.
ContainedWitness ==
    /\ fpc = "filtered"
    /\ mode = "contained"
    /\ start < end
    /\ Len(fflows) = 2
    /\ fflows[1].start_time = start /\ fflows[1].end_time = end
    /\ fflows[2].start_time = end /\ fflows[2].end_time > end
    /\ filtered = <<fflows[1]>>

\* C10. Mode 'overlap': a flow with both times is kept exactly when not
\* (end_time < start or start_time > end); touching a boundary is enough.
OverlapKeeps ==
    (fpc = "filtered" /\ mode = "overlap") =>
      \A k \in DOMAIN fflows : HasTimes(fflows[k]) =>
         (Kept(k) <=> ~(fflows[k].end_time < start \/ fflows[k].start_time > end))

\* C10 witness: a flow that ends exactly at start is kept, a flow lying
\* wholly after end is dropped.
OverlapWitness ==
    /\ fpc = "filtered"
    /\ mode = "overlap"
    /\ Len(fflows) = 2
    /\ fflows[1].start_time # None
    /\ fflows[1].start_time < start /\ fflows[1].end_time = start
    /\ fflows[2].start_time > end /\ fflows[2].end_time > end
    /\ filtered = <<fflows[1]>>

\* C11. A flow that still lacks start_time or end_time when the filter runs
\* is not in the filtered list, whatever the mode and the interval, also
\* when the backfill did not run or failed.
MissingTimeExcluded ==
    fpc = "filtered" =>
      \A k \in DOMAIN fflows : ~HasTimes(fflows[k]) => ~Kept(k)

\* C11 witness: the backfill could not run or failed, the first flow lacks
\* a time and is dropped although the second, with times, is kept.
MissingTimeWitness ==
    /\ fpc = "filtered"
    /\ fill_status \in {"no_tshark", "failed"}
    /\ Len(fflows) = 2
    /\ ~HasTimes(fflows[1])
    /\ HasTimes(fflows[2])
    /\ filtered = <<fflows[2]>>

\* s is t with some elements left out, the others in the order of t.
IsSubseq(s, t) ==
    \E at \in [DOMAIN s -> DOMAIN t] :
       /\ \A j, k \in DOMAIN s : j < k => at[j] < at[k]
       /\ \A j \in DOMAIN s : s[j] = t[at[j]]

\* The flow lies inside the interval [start, end] and does not end before
\* it starts.
Inside(flow) ==
    /\ HasTimes(flow)
    /\ flow.start_time >= start
    /\ flow.end_time <= end
    /\ flow.start_time <= flow.end_time

\* C31. For the flows and the interval of a run that reached the filter
\* (start <= end): a flow kept under 'contained' whose start_time is not
\* after its end_time is among the flows 'overlap' keeps, and under
\* 'overlap' every such flow inside the interval is kept; and the filtered
\* list, in either mode, is a subsequence of the loaded flows in their
\* order.
ContainedWithinOverlap ==
    fpc = "filtered" =>
      /\ start <= end
      /\ mode = "contained" =>
            \A j \in DOMAIN filtered :
               filtered[j].start_time <= filtered[j].end_time =>
                  filtered[j] \in Range(Filtered(fflows, start, end, "overlap"))
      /\ mode = "overlap" =>
            \A k \in DOMAIN fflows : Inside(fflows[k]) => Kept(k)
      /\ IsSubseq(filtered, fflows)

\* C31 witness: under 'overlap' the first flow, which reaches beyond the
\* interval, and the second, which lies inside it, are both kept, in the
\* order they were loaded.
ContainedWithinWitness ==
    /\ fpc = "filtered"
    /\ mode = "overlap"
    /\ Len(fflows) = 2
    /\ start < end
    /\ fflows[1].start_time = start /\ fflows[1].end_time > end
    /\ Inside(fflows[2])
    /\ fflows[1] # fflows[2]
    /\ filtered = fflows

\* The (primary, secondary) identifier pair of a flow object.
Ident(f) == <<f.enb_ue_s1ap_id, f.mme_ue_s1ap_id>>

\* This step is the call of fill_missing_times (line 355).
Backfilled == fpc = "loaded" /\ fill_status' = "filled"

\* The timestamps the map has for the member frames of a flow.
MemberTimes(flow, ft) == {ft[n] : n \in Range(flow.frames) \cap DOMAIN ft}

\* C26. fill_missing_times leaves a flow that has both start_time and
\* end_time unchanged; a flow that lacks one of them and has a member frame
\* in the map gets the minimum and the maximum of its member frames'
\* timestamps as start_time and end_time, a time that was there being
\* replaced; a flow with no member frame in the map is unchanged; the frames
\* and the identifiers of every flow stay as they are, and so does the
\* list of flows outside that call (specification SpecFill).
BackfillEffect ==
    [][ /\ Backfilled =>
             /\ DOMAIN fflows' = DOMAIN fflows
             /\ \A k \in DOMAIN fflows :
                   LET old == fflows[k]
                       new == fflows'[k]
                       times == MemberTimes(old, frame_time')
                   IN /\ HasTimes(old) => new = old
                      /\ (~HasTimes(old) /\ times # {}) =>
                            /\ new.start_time = Min(times)
                            /\ new.end_time = Max(times)
                      /\ times = {} => new = old
                      /\ DOMAIN new = DOMAIN old
                      /\ new.frames = old.frames
                      /\ Ident(new) = Ident(old)
        /\ ~Backfilled => fflows' = fflows
      ]_vars

\* C26 witness: the map has frame 1 only, at time 1. After the call the
\* first flow, of frames 1 and 2, starts and ends at 1, and the second, of
\* frame 2 only, still has no start time and its end time of 2.
BackfillWitness ==
    /\ fpc = "filled"
    /\ fill_status = "filled"
    /\ frame_time = [f \in {1} |-> 1]
    /\ Len(fflows) = 2
    /\ fflows[1].frames = <<1, 2>>
    /\ fflows[1].start_time = 1 /\ fflows[1].end_time = 1
    /\ fflows[2].frames = <<2>>
    /\ fflows[2].start_time = None /\ fflows[2].end_time = 2

(***************************************************************************)
(* Properties of whole runs of the subcommands (specification SpecCli).    *)
(***************************************************************************)
\* The filter subcommand has written its result and returned 0.
FilterDone == fpc = "exit0" /\ out_file.state = "written"

\* The object the filter subcommand wrote, and its flows.
FilterJson == out_file.json[1]
OutFlows == FilterJson.flows

\* The k-th output flow is made from the k-th filtered flow.
MadeFrom(k) ==
    \A key \in DOMAIN filtered[k] \ ExcludedKeys :
       key \in DOMAIN OutFlows[k] /\ OutFlows[k][key] = filtered[k][key]

\* Start time, then numerically smallest member frame.
OrderKey(flow) == <<flow.start_time, Min(Range(flow.frames))>>

\* C12. The flows of the filter output are in ascending order of start
\* time, ties broken by the smallest member frame number, whatever the order
\* of the input flows and however their times were obtained.
OutputOrdered ==
    FilterDone =>
      /\ Len(OutFlows) = Len(filtered)
      /\ \A j, k \in DOMAIN OutFlows :
            j < k => /\ MadeFrom(j) /\ MadeFrom(k)
                     /\ KeyLeq(OrderKey(filtered[j]), OrderKey(filtered[k]))

\* The number of loaded flows the predicate keeps.
NKept == Cardinality({k \in DOMAIN fflows : Keep(fflows[k], start, end, mode)})

\* C13. The display indices of the filter output are 1, 2, ..., N in
\* output order, N being the number of flows the predicate keeps, and
\* total_flows is N.
FlowNumbers ==
    FilterDone =>
      /\ Len(OutFlows) = NKept
      /\ \A k \in DOMAIN OutFlows : OutFlows[k].flow_no = k
      /\ FilterJson.total_flows = NKept

\* C13 witness: two flows are kept and written as flows 1 and 2 of 2.
FlowNumbersWitness ==
    /\ FilterDone
    /\ Len(filtered) = 2
    /\ OutFlows[1].flow_no = 1
    /\ OutFlows[2].flow_no = 2
    /\ FilterJson.total_flows = 2

\* The file could not be written.
CannotWrite == out_file.state = "failed"

\* C14. A subcommand that cannot write its result file exits with code 1,
\* never with 0.
WriteFailureExitsOne ==
    CannotWrite => IF bpc # "idle" THEN bpc = "exit1" ELSE fpc = "exit1"

\* The run is over without a result: nothing grouped, filtered or enriched
\* after the failure, no file, a non-zero exit code.
BuildAborted ==
    /\ bpc = "exit1"
    /\ flows = <<>>
    /\ result = <<>>
    /\ out_file = NoFile

\* C15 as claimed. A decoder failure in a mapping-building step aborts the
\* run in both subcommands: the filter subcommand, too, goes no further than
\* the failed backfill, writes no file and does not return 0.
MappingFailureAbortsClaimed ==
    /\ idmap_status = "failed" => BuildAborted
    /\ fill_status = "failed" =>
          /\ fpc \notin {"filtered", "enrich", "chunking", "exit0"}
          /\ out_file.state # "written"

\* C15, amended. A decoder failure while the build subcommand builds its
\* identifier map aborts the run: no flows, no file, exit status 1. A
\* decoder failure while the filter subcommand builds its frame-to-time map
\* is not fatal: no time is filled, and the run ends by returning 0 with
\* the file written, or 1 when the write fails.
MappingFailure ==
    /\ idmap_status = "failed" => BuildAborted
    /\ fill_status = "failed" =>
          /\ frame_time = EmptyDict
          /\ NeedFill(fflows)
          /\ fpc # "exit2"
          /\ fpc = "exit0" => out_file.state = "written"
          /\ fpc = "exit1" => out_file.state = "failed"

\* C15 witness: the backfill failed, and the run still wrote a flow that had
\* its times, leaving out one that lacks them.
MappingFailureWitness ==
    /\ fill_status = "failed"
    /\ FilterDone
    /\ Len(fflows) = 2
    /\ Len(OutFlows) = 1
    /\ ~HasTimes(fflows[1])

\* The run of the build subcommand, or of the filter subcommand, meets an
\* input error.
BuildInputError == bpc # "idle" /\ benv \in BuildErrors
FilterUsageError == fpc # "idle" /\ (env \in InputErrors \/ start > end)
FilterNoDecoder == fpc # "idle" /\ ~tshark

\* C16. A run that meets an input error (a missing CSV, capture or flow-set
\* file, a flow set that is not a JSON array, start > end, the decoder
\* unavailable) never writes a result file, never sends a summary request,
\* and ends with exit code 2 only; the file and interval errors end it at
\* the input checks.
InputErrorExitsTwo ==
    /\ BuildInputError =>
          /\ bpc \in {"args", "exit2"}
          /\ idmap_status = "none"
          /\ out_file = NoFile
    /\ FilterUsageError =>
          /\ fpc \in {"args", "exit2"}
          /\ out_file = NoFile
          /\ requests = <<>>
    /\ FilterNoDecoder =>
          /\ fpc \in {"args", "loaded", "filled", "filtered", "exit2"}
          /\ out_file = NoFile
          /\ requests = <<>>

\* C16 witness: the decoder is unavailable, which the filter subcommand
\* finds out with a flow already kept; it has exited with 2, nothing written
\* and nothing requested.
InputErrorWitness ==
    /\ fpc = "exit2"
    /\ ~tshark
    /\ env = "ok"
    /\ start <= end
    /\ filtered # <<>>
    /\ out_file = NoFile
    /\ requests = <<>>

\* The build subcommand has written its flows and returned.
BuildDone == bpc = "exit0" /\ out_file.state = "written"
BuildOut == out_file.json[1]

\* The timestamp of frame n in the CSV: that of the last row of the frame
\* that has one, None when no row has.
TimeOf(n) ==
    LET ks == {k \in DOMAIN rows : rows[k].frame = n /\ rows[k].time # None}
    IN IF ks = {} THEN None ELSE rows[Max(ks)].time

\* The timestamps of the member frames of flow x that have one.
Stamps(x) == {TimeOf(n) : n \in Range(x.frames)} \ {None}

\* Every timestamp the CSV holds for a member frame of flow x.
AllStamps(x) ==
    {rows[k].time : k \in {j \in DOMAIN rows : rows[j].frame \in Range(x.frames)}}
      \ {None}

\* C18 as claimed. start_time and end_time of a written flow are the minimum
\* and the maximum of the timestamps observed for its member frames, and are
\* null exactly when none was observed.
BuildTimesClaimed ==
    BuildDone =>
      \A k \in DOMAIN BuildOut :
        LET x == BuildOut[k]
        IN /\ (x.start_time = None) <=> (AllStamps(x) = {})
           /\ (x.end_time = None) <=> (AllStamps(x) = {})
           /\ AllStamps(x) # {} =>
                 /\ x.start_time = Min(AllStamps(x))
                 /\ x.end_time = Max(AllStamps(x))

\* C18, amended. Every flow the build subcommand writes has start_time the
\* minimum and end_time the maximum of the timestamps of its member frames
\* that have one, the timestamp of a frame number being that of the last CSV
\* row of that number which has one; so start_time <= end_time; both are
\* null exactly when no member frame has a timestamp.
BuildTimes ==
    BuildDone =>
      \A k \in DOMAIN BuildOut :
        LET x == BuildOut[k]
        IN /\ (x.start_time = None) <=> (Stamps(x) = {})
           /\ (x.end_time = None) <=> (Stamps(x) = {})
           /\ Stamps(x) # {} =>
                 /\ x.start_time = Min(Stamps(x))
                 /\ x.end_time = Max(Stamps(x))
                 /\ x.start_time <= x.end_time

\* C18 witness: a written flow of two frames whose lower-numbered frame has
\* the later timestamp; start_time is the timestamp of the higher-numbered.
BuildTimesWitness ==
    /\ BuildDone
    /\ Len(BuildOut) = 1
    /\ Len(BuildOut[1].frames) = 2
    /\ TimeOf(BuildOut[1].frames[1]) > TimeOf(BuildOut[1].frames[2])
    /\ TimeOf(BuildOut[1].frames[2]) # None
    /\ BuildOut[1].start_time = TimeOf(BuildOut[1].frames[2])
    /\ BuildOut[1].end_time = TimeOf(BuildOut[1].frames[1])

\* Flow a may stand before flow b in the persisted flow set.
MayPrecede(a, b) ==
    LET fa == Min(Range(a.frames))
        fb == Min(Range(b.frames))
    IN IF a.start_time = None THEN b.start_time = None /\ fa <= fb
       ELSE \/ b.start_time = None
            \/ a.start_time < b.start_time
            \/ a.start_time = b.start_time /\ fa <= fb

\* C19. The flows the build subcommand writes are in ascending order of
\* start time, then of smallest member frame number, the flows without a
\* start time after all those that have one.
BuildOrdered ==
    BuildDone =>
      \A j, k \in DOMAIN BuildOut : j < k => MayPrecede(BuildOut[j], BuildOut[k])

\* C19 witness: the flow group_flows created first has no start time and is
\* written last, after a flow that has one.
BuildOrderedWitness ==
    /\ BuildDone
    /\ Len(BuildOut) = 2
    /\ Len(flows) = 2
    /\ BuildOut[2].enb_ue_s1ap_id = flows[1].key[1]
    /\ BuildOut[2].start_time = None
    /\ BuildOut[1].start_time # None

(***************************************************************************)
(* Properties of the pass of group_flows, step by step (specification      *)
(* Spec).                                                                  *)
(***************************************************************************)
\* The flows whose frame list this step changed or created.
Touched == {k \in Keys(flows') : FramesOf(flows', k) # FramesOf(flows, k)}

\* The pending bucket of primary p before this step.
Bucket(p) == IF p \in DOMAIN enb_pending THEN enb_pending[p] ELSE <<>>

\* C23. Flow lifecycle: in every step every flow keeps its key and its
\* frames (flows only grow); a processed record changes at most one flow,
\* an existing flow only by appending the record's frame, and a new flow
\* starts from the pending bucket of its primary and that frame, so no frame
\* moves between flows; and every bound primary has its own flow, keyed by
\* itself, also when two primaries are bound to the same secondary.
FlowLifecycle ==
    [][ /\ \A k \in Keys(flows) :
             /\ k \in Keys(flows')
             /\ Range(FramesOf(flows, k)) \subseteq Range(FramesOf(flows', k))
        /\ Stepped =>
             /\ Cardinality(Touched) <= 1
             /\ \A k \in Touched \cap Keys(flows) :
                   FramesOf(flows', k) = Append(FramesOf(flows, k), NewRow.frame)
             /\ \A k \in Keys(flows') \ Keys(flows) :
                   FramesOf(flows', k) = Append(Bucket(k[1]), NewRow.frame)
        /\ \A q \in DOMAIN enb_to_pair' :
             /\ enb_to_pair'[q][1] = q
             /\ enb_to_pair'[q] \in Keys(flows')
      ]_vars

\* C23 witness: primaries 1 and 2 are both bound to secondary 1 and have a
\* flow each, the first of which has grown to two frames.
FlowLifecycleWitness ==
    /\ pc = "loop"
    /\ Len(rows) = 3
    /\ Keys(flows) = {<<1, 1>>, <<2, 1>>}
    /\ Len(FramesOf(flows, <<1, 1>>)) = 2
    /\ Len(FramesOf(flows, <<2, 1>>)) = 1

\* The identifiers of row r with its gaps filled from the supplemental map.
GapFilled(r) ==
    LET sup == IF r.frame \in DOMAIN frame_ids THEN frame_ids[r.frame]
               ELSE <<None, None>>
    IN [frame |-> r.frame,
        enb |-> IF r.enb # None THEN r.enb ELSE sup[1],
        mme |-> IF r.mme # None THEN r.mme ELSE sup[2]]

\* C24. Supplemental filling only fills gaps: every record has the effect
\* that the record with its own identifiers where present, and the
\* supplemental value of its frame (possibly none) where missing, has
\* without a supplemental map; a record whose frame has no entry has the
\* effect it has without a supplemental map.
FillsGapsOnly ==
    [][ Stepped =>
          /\ State' = StepRow(State, GapFilled(NewRow), EmptyDict)
          /\ NewRow.frame \notin DOMAIN frame_ids =>
                State' = StepRow(State, NewRow, EmptyDict)
      ]_vars

\* C24 witness: frame 1 has the supplemental entry (2, 1); its record
\* carries primary 1 and no secondary, and the flow made is (1, 1).
FillsGapsWitness ==
    /\ pc = "done"
    /\ frame_ids = [f \in {1} |-> <<2, 1>>]
    /\ Len(rows) = 1
    /\ rows[1] = [frame |-> 1, enb |-> 1, mme |-> None]
    /\ Keys(flows) = {<<1, 1>>}
    /\ FramesOf(flows, <<1, 1>>) = <<1>>

\* C27. No primary identifier has both a pending bucket and a binding, in
\* any state of the pass; and a primary that is bound stays bound and has no
\* bucket after any later step.
BucketOrBinding ==
    [][ /\ DOMAIN enb_pending' \cap DOMAIN enb_to_pair' = {}
        /\ \A q \in DOMAIN enb_to_pair :
             q \in DOMAIN enb_to_pair' /\ q \notin DOMAIN enb_pending'
      ]_vars

\* C27 witness: primary 1 was seen alone, then paired, then alone again;
\* it is bound, has no bucket, and its flow has the three frames.
BucketOrBindingWitness ==
    /\ pc = "loop"
    /\ Len(rows) = 3
    /\ frame_ids = EmptyDict
    /\ rows[1].enb = 1 /\ rows[1].mme = None
    /\ rows[2].enb = 1 /\ rows[2].mme = 1
    /\ rows[3].enb = 1 /\ rows[3].mme = None
    /\ DOMAIN enb_to_pair = {1}
    /\ 1 \notin DOMAIN enb_pending
    /\ Len(FramesOf(flows, <<1, 1>>)) = 3

\* C28. In every state of the pass the flow keys are exactly the values of
\* the binding: the key (p, s) of a flow is the binding of p, every bound
\* primary has its flow, no two flows have the same primary, and there are
\* as many flows as bound primaries.
KeysAreBindings ==
    /\ Keys(flows) = {enb_to_pair[q] : q \in DOMAIN enb_to_pair}
    /\ \A k \in Keys(flows) :
          k[1] \in DOMAIN enb_to_pair /\ enb_to_pair[k[1]] = k
    /\ \A a, b \in DOMAIN flows : flows[a].key[1] = flows[b].key[1] => a = b
    /\ Len(flows) = Cardinality(DOMAIN enb_to_pair)

\* C28 witness: both primaries are bound, each has its flow, and primary 1
\* has been seen with a second secondary, which made no flow.
KeysAreBindingsWitness ==
    /\ pc = "loop"
    /\ Len(rows) = 3
    /\ frame_ids = EmptyDict
    /\ DOMAIN enb_to_pair = {1, 2}
    /\ Len(flows) = 2
    /\ rows[1].enb = 1 /\ rows[1].mme = 1
    /\ rows[3].enb = 1 /\ rows[3].mme = 2

\* The frame numbers of the rows read that carry primary p after filling.
Carrying(p) == {rows[j].frame : j \in {n \in DOMAIN rows : EffEnb(rows[n]) = p}}

\* Primary p is paired with a secondary in some row read, after filling.
Paired(p) ==
    \E j \in DOMAIN rows : EffEnb(rows[j]) = p /\ EffMme(rows[j]) # None

\* C29. Completeness of a resolved flow: a primary paired with a secondary
\* in some row read so far is bound, and the frames of its flow are exactly
\* the frame numbers of the rows read that carry it, before or after its
\* first pairing and with whatever secondary; in the flows returned they
\* are listed once each in ascending order.
ResolvedComplete ==
    \A p \in EnbIds :
       (pc \in {"loop", "done"} /\ Paired(p)) =>
         /\ p \in DOMAIN enb_to_pair
         /\ Range(FramesOf(flows, enb_to_pair[p])) = Carrying(p)
         /\ pc = "done" =>
               FramesOf(flows, enb_to_pair[p]) = SetToSortedSeq(Carrying(p))

\* C29 witness: primary 1 alone in frame 3, paired with secondary 1 in frame
\* 1, with secondary 2 in frame 2: the flow (1, 1) returned is 1, 2, 3.
ResolvedCompleteWitness ==
    /\ pc = "done"
    /\ frame_ids = EmptyDict
    /\ rows = <<[frame |-> 3, enb |-> 1, mme |-> None],
                [frame |-> 1, enb |-> 1, mme |-> 1],
                [frame |-> 2, enb |-> 1, mme |-> 2]>>
    /\ Len(flows) = 1
    /\ flows[1] = [key |-> <<1, 1>>, frames |-> <<1, 2, 3>>]

\* C30. Every flow returned is non-empty, has both key components non-null,
\* and contains the frame of a row that carried, after filling, exactly the
\* two identifiers of its key.
FlowsWellFounded ==
    pc = "done" =>
      \A k \in DOMAIN flows :
         /\ flows[k].frames # <<>>
         /\ flows[k].key[1] # None
         /\ flows[k].key[2] # None
         /\ \E j \in DOMAIN rows :
               /\ Eff(rows[j]) = flows[k].key
               /\ rows[j].frame \in Range(flows[k].frames)

\* C30 witness: two flows are returned, the second of which owes its
\* secondary to the supplemental map; a third row, with a secondary only,
\* is in neither.
FlowsWellFoundedWitness ==
    /\ pc = "done"
    /\ Len(rows) = 3
    /\ Len(flows) = 2
    /\ frame_ids = [f \in {1} |-> <<None, 2>>]
    /\ \E j \in DOMAIN rows :
          /\ rows[j] = [frame |-> 1, enb |-> 2, mme |-> None]
          /\ <<2, 2>> \in Keys(flows)
    /\ \E j \in DOMAIN rows : rows[j].enb = None /\ rows[j].mme # None

(***************************************************************************)
(* Properties of a build followed by a filter (specification SpecRound).   *)
(***************************************************************************)
\* The filter subcommand has read the file: its flows are, one for one and
\* in order, those the build wrote, with the same frames and identifiers.
Reread ==
    fpc # "idle" =>
      /\ Len(fflows) = Len(result)
      /\ \A k \in DOMAIN fflows :
            /\ fflows[k].frames = result[k].frames
            /\ Ident(fflows[k]) = Ident(result[k])

\* C22 as claimed: the flows the filter reads have the frames and the
\* identifier pair the build wrote, and every kept flow has both, unchanged,
\* in the filter's output.
RoundTripClaimed ==
    /\ Reread
    /\ FilterDone =>
         /\ filtered = Filtered(fflows, start, end, mode)
         /\ Len(OutFlows) = Len(filtered)
         /\ \A k \in DOMAIN OutFlows :
               /\ Ident(OutFlows[k]) = Ident(filtered[k])
               /\ "frames" \in DOMAIN OutFlows[k]
               /\ OutFlows[k].frames = filtered[k].frames

\* C22. Round trip: the flows the filter reads have the frames and the
\* identifier pair the build wrote; every kept flow has its identifier pair
\* unchanged in the filter's output, and its frame list unchanged when
\* --showframenum is given; without it the output flow has no frame list.
RoundTrip ==
    /\ Reread
    /\ FilterDone =>
         /\ filtered = Filtered(fflows, start, end, mode)
         /\ Len(OutFlows) = Len(filtered)
         /\ \A k \in DOMAIN OutFlows :
               /\ Ident(OutFlows[k]) = Ident(filtered[k])
               /\ showframenum => /\ "frames" \in DOMAIN OutFlows[k]
                                  /\ OutFlows[k].frames = filtered[k].frames
               /\ ~showframenum => "frames" \notin DOMAIN OutFlows[k]

\* C22 witness: the build wrote two flows; the filter, showing frame
\* numbers, kept the second only and wrote it with its pair and frames.
RoundTripWitness ==
    /\ FilterDone
    /\ showframenum
    /\ Len(result) = 2
    /\ Len(OutFlows) = 1
    /\ Ident(OutFlows[1]) = Ident(result[2])
    /\ Ident(result[1]) # Ident(result[2])
    /\ OutFlows[1].frames = result[2].frames

(***************************************************************************)
(* Properties of text rows (specification SpecText).                       *)
(***************************************************************************)
\* The cell texts that are no number.
MalformedTexts == {Text(<<"x">>), Text(<<"1", "_">>), Text(<<"0", "x">>)}

\* The row with every malformed identifier cell emptied.
Blanked(raw) ==
    [frame |-> raw.frame,
     enb |-> IF raw.enb \in MalformedTexts THEN <<>> ELSE raw.enb,
     mme |-> IF raw.mme \in MalformedTexts THEN <<>> ELSE raw.mme]

\* The rows whose frame text is a number, identifiers blanked, converted.
WellFormed(rs) ==
    LET good(raw) == raw.frame \notin MalformedTexts
        kept == SelectSeq(rs, good)
    IN [k \in DOMAIN kept |-> ParseRow(Blanked(kept[k]))]

\* C21. Malformed text is treated as absent and never stops the pass: a row
\* with a malformed frame number changes no state; a row with a malformed
\* identifier is processed as the same row with that identifier empty,
\* supplemental filling included; and the pass holds, after every row,
\* what it holds for the well-formed rows alone.
MalformedIsAbsent ==
    [][Stepped =>
         /\ NewRow.frame \in MalformedTexts => UNCHANGED <<flows, enb_pending, enb_to_pair>>
         /\ NewRow.frame \notin MalformedTexts =>
               State' = StepRow(State, ParseRow(Blanked(NewRow)), frame_ids)
         /\ State' = RunRows(InitState, WellFormed(rows'), frame_ids)]_vars

\* C21 witness: after a row with a malformed frame number and a row with a
\* malformed secondary identifier, held pending, the third row pairs the
\* primary: the returned flow holds the frames of rows 2 and 3.
MalformedWitness ==
    /\ pc = "done"
    /\ Len(rows) = 3
    /\ frame_ids = EmptyDict
    /\ rows[1].frame \in MalformedTexts
    /\ rows[1].enb = Text(<<"+", "1">>) /\ rows[1].mme = Text(<<"0", "X", "A">>)
    /\ rows[2].frame = Text(<<"1">>) /\ rows[2].mme \in MalformedTexts
    /\ rows[3].frame = Text(<<" ", "2", "\r">>)
    /\ rows[3].mme = Text(<<"0", "X", "A">>)
    /\ rows[2].enb = Text(<<"+", "1">>) /\ rows[3].enb = Text(<<"+", "1">>)
    /\ Len(flows) = 1
    /\ flows[1].frames = <<1, 2>>

(***************************************************************************)
(* Properties of interleaved invocations (specification SpecTwo).          *)
(***************************************************************************)
\* C20. Two invocations of group_flows whose steps interleave in any order:
\* at every step each holds the flows, pending buckets and bindings it holds
\* after the same rows when run alone, and each returns the result it
\* returns alone.
IndependentRuns ==
    /\ pc = "loop" => State = RunRows(InitState, rows, frame_ids)
    /\ pc = "done" => flows = GroupFlows(rows, frame_ids)
    /\ other.pc = "loop" =>
          LET alone == RunRows(InitState, other.rows, other.frame_ids)
          IN /\ other.flows = alone.flows
             /\ other.enb_pending = alone.enb_pending
             /\ other.enb_to_pair = alone.enb_to_pair
    /\ other.pc = "done" =>
          other.flows = GroupFlows(other.rows, other.frame_ids)

\* C20 witness: while the first invocation still held frame 1 pending for
\* a primary, the second bound that primary; both have returned, the first
\* with no flow, the second with a flow that lacks frame 1.
IndependentWitness ==
    /\ pc = "done"
    /\ other.pc = "done"
    /\ Len(rows) = 1
    /\ rows[1].frame = 1
    /\ DOMAIN enb_pending = {rows[1].enb}
    /\ flows = <<>>
    /\ Len(other.flows) = 1
    /\ other.flows[1].key[1] = rows[1].enb
    /\ other.flows[1].frames = <<2>>

(***************************************************************************)
(* Properties of the chunked enrichment (specification SpecEnrich).        *)
(***************************************************************************)
\* The frames of the first n requests made for flow k, in the order sent;
\* with rowsOnly, the rows that tshark answered them with.
RECURSIVE SentUpTo(_, _, _)
SentUpTo(n, k, rowsOnly) ==
    IF n = 0 THEN <<>>
    ELSE LET r == requests[n]
         IN SentUpTo(n - 1, k, rowsOnly) \o
            (IF r.flow_no # k THEN <<>>
             ELSE IF rowsOnly THEN r.rows ELSE r.frames)

Sent(k) == SentUpTo(Len(requests), k, FALSE)
InFrameOrder(s) == \A j \in 1..(Len(s) - 1) : s[j] < s[j + 1]
Answered(k) == SentUpTo(Len(requests), k, TRUE)

\* C17. Partial results of the enrichment. Whatever requests fail: the
\* requests made for a finished flow are, one after the other, exactly its
\* frame list (no chunk is skipped or sent again, for any flow); the rows of
\* the flow are those tshark answered its requests with, in frame order, a
\* failed request giving none; and the run ends only by the write, with
\* every kept flow in the file.
PartialResults ==
    /\ \A k \in DOMAIN enriched :
          /\ Sent(k) = filtered[k].frames
          /\ enriched[k].pkt_summary_csv = Answered(k)
          /\ InFrameOrder(enriched[k].pkt_summary_csv)
    /\ fpc = "chunking" =>
          /\ Sent(idx) \o chunk = SubSeq(filtered[idx].frames, 1, pos)
          /\ lines_accum = Answered(idx)
    /\ fpc = "exit0" =>
          /\ out_file = Written(ResultObj(csv_header_line, enriched))
          /\ Len(enriched) = Len(filtered)
    /\ fpc = "exit1" => out_file = WriteFailed /\ Len(enriched) = Len(filtered)
    /\ fpc = "exit2" => ~tshark /\ requests = <<>>

\* C17 witness: the first of two requests of flow 1 failed and was not sent
\* again, the second was answered in full and its rows are kept; the two
\* requests of flow 2 were answered, the first with a row less than it has
\* frames; and the file is written with both flows.
PartialResultsWitness ==
    /\ FilterDone
    /\ Len(filtered) = 2
    /\ Len(requests) = 4
    /\ requests[1].flow_no = 1 /\ ~requests[1].ok
    /\ requests[2].flow_no = 1 /\ requests[2].ok
    /\ requests[3].flow_no = 2 /\ requests[3].ok
    /\ requests[4].flow_no = 2 /\ requests[4].ok
    /\ OutFlows[1].pkt_summary_csv = requests[2].frames
    /\ Len(requests[3].rows) = Len(requests[3].frames) - 1
    /\ OutFlows[2].pkt_summary_csv = requests[3].rows \o requests[4].frames

\* The accounted size of frames a..b of a chunk: the digits of each frame
\* number and one separator each.
RECURSIVE SizeBetween(_, _, _)
SizeBetween(ck, a, b) ==
    IF a > b THEN 0
    ELSE IF a = b THEN Digits(ck[a]) + 1
    ELSE LET h == (a + b) \div 2
         IN SizeBetween(ck, a, h) + SizeBetween(ck, h + 1, b)

SizeOf(ck) == SizeBetween(ck, 1, Len(ck))

\* The requests made for flow k, and the header line of the first of them
\* that returned output (NoLine if none did).
RequestsOf(k) == SelectSeq(requests, LAMBDA r : r.flow_no = k)
FirstHeader(rs) ==
    LET got == SelectSeq(rs, LAMBDA r : r.ok)
    IN IF got = <<>> THEN NoLine ELSE got[1].header

\* The header lines of the flows before flow n, and the first of them that
\* is a line of text, not empty (NoLine if none is).
FlowHeaders(n) == [k \in 1..(n - 1) |-> FirstHeader(RequestsOf(k))]
FirstText(hs) ==
    LET got == SelectSeq(hs, LAMBDA h : h \notin {NoLine, ""})
    IN IF got = <<>> THEN NoLine ELSE got[1]

\* C25. Chunking of the summary requests. A step that sends a request sends
\* the chunk collected, which is not empty and whose accounted size is
\* current_len and within max_chars. After every step: the chunks requested
\* for a flow are, one after the other, its frame list (with the chunk being
\* collected, the frames consumed so far), and there are at most as many as
\* frames; and the header line of a flow is the one of the first of its
\* requests that returned output, whatever later requests return, the
\* header line of the file being the first of these that is not empty.
Chunking ==
    [][ /\ requests' # requests =>
             LET r == requests'[Len(requests')]
             IN /\ Len(requests') = Len(requests) + 1
                /\ r.frames = chunk
                /\ r.frames # <<>>
                /\ SizeOf(r.frames) = current_len
                /\ current_len <= max_chars
        /\ \A k \in DOMAIN enriched' :
             /\ Sent(k)' = filtered'[k].frames
             /\ Len(RequestsOf(k)') <= Len(filtered'[k].frames)
        /\ fpc' = "chunking" =>
             /\ Sent(idx)' \o chunk' = SubSeq(filtered'[idx'].frames, 1, pos')
             /\ current_len' <= max_chars
             /\ Len(RequestsOf(idx)') <= pos'
             /\ header_line' = FirstHeader(RequestsOf(idx))'
        /\ csv_header_line' = FirstText(FlowHeaders(idx))'
      ]_vars

\* C25 witness: a flow too long for one request was sent as two chunks,
\* both answered, with different header lines; the header line kept is the
\* one of the first.
ChunkingWitness ==
    /\ fpc = "enrich"
    /\ Len(enriched) = 1
    /\ Len(requests) = 2
    /\ requests[1].ok /\ requests[2].ok
    /\ requests[1].header # requests[2].header
    /\ Len(requests[1].frames) = PerChunk
    /\ requests[1].frames \o requests[2].frames = filtered[1].frames
    /\ csv_header_line = requests[1].header
====
